---- MODULE Spec2Model ----
(***************************************************************************)
(* CodeMapper: the two-pass static call-graph extractor.                   *)
(*                                                                         *)
(* Two revisions of the extractor are modelled side by side:               *)
(*   rev = "main"  src/main.go              (no -skip flag, no output      *)
(*                                           filter, receiver text by      *)
(*                                           ast.Fprint)                   *)
(*   rev = "skip"  src/unnamed/part_000     (-skip flag, empty mappings    *)
(*                                           filtered, receiver text by    *)
(*                                           printer.Fprint)               *)
(*                                                                         *)
(* Go strings are sequences of one-character strings, so that             *)
(* concatenation, prefix, suffix and substring tests are computed.         *)
(***************************************************************************)
EXTENDS Integers, Sequences, FiniteSets, TLC

(***************************************************************************)
(* Bounds of the model.                                                    *)
(***************************************************************************)
\* deepest nesting of function literals around a call
MaxLitDepth == 2
\* most call statements in one declaration body
MaxCalls == 2

(***************************************************************************)
(* strings                                                                 *)
(***************************************************************************)
Empty == <<>>

\* strings.HasPrefix
HasPrefix(s, p) == Len(p) <= Len(s) /\ SubSeq(s, 1, Len(p)) = p

\* strings.HasSuffix
HasSuffix(s, p) == Len(p) <= Len(s) /\ SubSeq(s, Len(s) - Len(p) + 1, Len(s)) = p

\* strings.Contains
Contains(s, p) == \E i \in 0..(Len(s) - Len(p)) : SubSeq(s, i + 1, i + Len(p)) = p

\* index of the first occurrence of character c in s, 0 when there is none
RECURSIVE IndexOf(_, _, _)
IndexOf(s, c, i) ==
    IF i > Len(s) THEN 0
    ELSE IF s[i] = c THEN i
    ELSE IndexOf(s, c, i + 1)

\* strings.Split(s, sep) for a one-character separator: always at least one part
RECURSIVE Split(_, _)
Split(s, sep) ==
    LET i == IndexOf(s, sep, 1)
    IN  IF i = 0 THEN <<s>>
        ELSE <<SubSeq(s, 1, i - 1)>> \o Split(SubSeq(s, i + 1, Len(s)), sep)

\* index of the last occurrence of character c in s, 0 when there is none
RECURSIVE LastIndexOf(_, _, _)
LastIndexOf(s, c, i) ==
    IF i = 0 THEN 0
    ELSE IF s[i] = c THEN i
    ELSE LastIndexOf(s, c, i - 1)

\* strings.Trim(s, `"`): strips the quote characters at both ends
RECURSIVE TrimQuotes(_)
TrimQuotes(s) ==
    IF Len(s) > 0 /\ s[1] = "\"" THEN TrimQuotes(Tail(s))
    ELSE IF Len(s) > 0 /\ s[Len(s)] = "\"" THEN TrimQuotes(SubSeq(s, 1, Len(s) - 1))
    ELSE s

\* strings.TrimSpace
RECURSIVE TrimSpace(_)
TrimSpace(s) ==
    IF Len(s) > 0 /\ s[1] = " " THEN TrimSpace(Tail(s))
    ELSE IF Len(s) > 0 /\ s[Len(s)] = " " THEN TrimSpace(SubSeq(s, 1, Len(s) - 1))
    ELSE s

(***************************************************************************)
(* paths (path/filepath on a slash-separated host)                         *)
(***************************************************************************)
\* filepath.Join(a, b): empty elements are ignored, the rest joined by "/"
Join(a, b) ==
    IF a = Empty THEN b
    ELSE IF b = Empty THEN a
    ELSE a \o <<"/">> \o b

\* filepath.Rel(root, path) for a path the walk of root produced
Rel(root, path) ==
    IF path = root THEN <<".">>
    ELSE SubSeq(path, Len(root) + 2, Len(path))

\* filepath.Dir(rel): the text before the last "/", "." when there is none
Dir(rel) ==
    LET i == LastIndexOf(rel, "/", Len(rel))
    IN  IF i = 0 THEN <<".">> ELSE SubSeq(rel, 1, i - 1)

\* filepath.ToSlash: the identity on a slash-separated host
ToSlash(p) == p

(***************************************************************************)
(* The syntax trees the parser hands over.                                 *)
(*                                                                         *)
(*   File       [imports, decls]                                           *)
(*   ImportSpec [name, path]     name = <<>> when there is no alias;       *)
(*                               path is the quoted literal                *)
(*   FuncDecl   [kind, name, recv, hasBody, body, line]                    *)
(*              recv = <<>> (free function) or <<f>> with f the first      *)
(*              receiver field [type, printErr]                            *)
(*   GenDecl    [kind, values]   a package-level var with initializers     *)
(*   CallExpr   [kind, fun, args, line]                                    *)
(*   Ident      [kind, name]                                               *)
(*   SelectorExpr [kind, x, sel]                                           *)
(*   StarExpr   [kind, x]                                                  *)
(*   ParenExpr  [kind, x]                                                  *)
(*   FuncLit    [kind, body]                                               *)
(***************************************************************************)
Ident(n) == [kind |-> "Ident", name |-> n]
\* an identifier the parser resolved to a declaration inside the function
\* (ast.Ident.Obj): obj is "var" for a local variable or parameter, "typ" for a
\* local type
LocalIdent(n, obj) == [kind |-> "Ident", name |-> n, obj |-> obj]
SelectorExpr(x, n) == [kind |-> "SelectorExpr", x |-> x, sel |-> n]
StarExpr(x) == [kind |-> "StarExpr", x |-> x]
ParenExpr(x) == [kind |-> "ParenExpr", x |-> x]
FuncLit(b) == [kind |-> "FuncLit", body |-> b]
CallExpr(f, a, l) == [kind |-> "CallExpr", fun |-> f, args |-> a, line |-> l]
GenDecl(v) == [kind |-> "GenDecl", values |-> v]
FuncDecl(n, r, hb, b, l) ==
    [kind |-> "FuncDecl", name |-> n, recv |-> r, hasBody |-> hb, body |-> b, line |-> l]

\* the decimal text of a small line number
Digit(n) == <<<<"0">>, <<"1">>, <<"2">>, <<"3">>, <<"4">>, <<"5">>, <<"6">>, <<"7">>, <<"8">>, <<"9">>>>[n + 1]

\* go/printer's rendering of a type expression: its source text
RECURSIVE PrinterFprint(_)
PrinterFprint(e) ==
    CASE e.kind = "Ident" -> e.name
      [] e.kind = "StarExpr" -> <<"*">> \o PrinterFprint(e.x)
      [] e.kind = "ParenExpr" -> <<"(">> \o PrinterFprint(e.x) \o <<")">>
      [] e.kind = "SelectorExpr" -> PrinterFprint(e.x) \o <<".">> \o e.sel

\* ast.Fprint's rendering of a type expression: a dump of the node, with the
\* node's Go type, its source position (file:line) and its fields
RECURSIVE AstFprint(_, _, _)
AstFprint(e, filePath, line) ==
    LET pos == filePath \o <<":">> \o Digit(line)
    IN  CASE e.kind = "Ident" ->
                <<"*", "a", "s", "t", ".", "I", "d", "{">> \o pos \o <<" ">> \o e.name \o <<"}">>
          [] e.kind = "StarExpr" ->
                <<"*", "a", "s", "t", ".", "S", "t", "{">> \o pos \o <<" ">>
                    \o AstFprint(e.x, filePath, line) \o <<"}">>
          [] e.kind = "ParenExpr" ->
                <<"*", "a", "s", "t", ".", "P", "a", "{">> \o pos \o <<" ">>
                    \o AstFprint(e.x, filePath, line) \o <<"}">>
          [] e.kind = "SelectorExpr" ->
                <<"*", "a", "s", "t", ".", "S", "e", "{">> \o pos \o <<" ">>
                    \o AstFprint(e.x, filePath, line) \o <<" ">> \o e.sel \o <<"}">>

(***************************************************************************)
(* Records of the data model                                               *)
(***************************************************************************)
Definition(id, name, pkg, filePath, line) ==
    [id |-> id, name |-> name, package |-> pkg, filePath |-> filePath, line |-> line]

CallSite(filePath, line, callerId) ==
    [filePath |-> filePath, line |-> line, callerId |-> callerId]

Mapping(def, sites) == [definition |-> def, callSites |-> sites]

AnalysisTarget(fsRoot, modulePath) == [fsRoot |-> fsRoot, modulePath |-> modulePath]

\* a variant of the map assignment that keeps the value of a key already there
PutIfAbsent(m, k, v) ==
    [x \in DOMAIN m \cup {k} |-> IF x \in DOMAIN m THEN m[x] ELSE v]

\* m[k] = v, adding k to the map when it is new
Put(m, k, v) == [x \in DOMAIN m \cup {k} |-> IF x = k THEN v ELSE m[x]]

EmptyMap == [x \in {} |-> {}]

(***************************************************************************)
(* Pass 1: findDefinitions                                                 *)
(***************************************************************************)
\* the package path of the file at filePath in target
FullPkgPath(filePath, target) ==
    LET relPath == Rel(target.fsRoot, filePath)
        d == Dir(relPath)
        pkgDir == IF d = <<".">> THEN Empty ELSE d
    IN  ToSlash(Join(target.modulePath, pkgDir))

\* the text of a method's receiver type, as the revision renders it
ReceiverType(rev, fn, filePath) ==
    IF rev = "main" THEN AstFprint(fn.recv[1].type, filePath, fn.line)
    ELSE PrinterFprint(fn.recv[1].type)

\* whether rendering the receiver type reports an error the revision looks at
\* (main.go ignores ast.Fprint's result)
ReceiverPrintFails(rev, fn) == rev = "skip" /\ fn.recv[1].printErr

\* the ID both passes synthesize for a declaration whose receiver rendered
SynthID(rev, pkg, fn, filePath) ==
    IF Len(fn.recv) > 0
    THEN pkg \o <<".">> \o ReceiverType(rev, fn, filePath) \o <<".">> \o fn.name
    ELSE pkg \o <<".">> \o fn.name

\* a variant of the callback that leaves the Mapping of an ID alone when the
\* ID is declared again
InspectDeclKeepingMapping(rev, idx, fn, filePath, target) ==
    IF fn.kind # "FuncDecl" THEN idx
    ELSE IF Len(fn.recv) > 0 /\ ReceiverPrintFails(rev, fn) THEN idx
    ELSE
        LET pkg == FullPkgPath(filePath, target)
            relPath == Rel(target.fsRoot, filePath)
            id == SynthID(rev, pkg, fn, filePath)
            def == Definition(id, fn.name, pkg, ToSlash(relPath), fn.line)
        IN  [definitions |-> Put(idx.definitions, id, def),
             mappings |-> PutIfAbsent(idx.mappings, id, Mapping(def, <<>>))]

\* the body of findDefinitions' ast.Inspect callback on one node: idx is
\* [definitions, mappings]
InspectDecl(rev, idx, fn, filePath, target) ==
    IF fn.kind # "FuncDecl" THEN idx
    ELSE IF Len(fn.recv) > 0 /\ ReceiverPrintFails(rev, fn) THEN idx
    ELSE
        LET pkg == FullPkgPath(filePath, target)
            relPath == Rel(target.fsRoot, filePath)
            id == SynthID(rev, pkg, fn, filePath)
            def == Definition(id, fn.name, pkg, ToSlash(relPath), fn.line)
        IN  [definitions |-> Put(idx.definitions, id, def),
             mappings |-> Put(idx.mappings, id, Mapping(def, <<>>))]

RECURSIVE InspectDecls(_, _, _, _, _)
InspectDecls(rev, idx, decls, filePath, target) ==
    IF decls = <<>> THEN idx
    ELSE InspectDecls(rev, InspectDecl(rev, idx, Head(decls), filePath, target),
                      Tail(decls), filePath, target)

\* a variant of findDefinitions that inspects whatever the parser returned,
\* error or not
findDefinitionsDespiteError(rev, idx, filePath, target, file) ==
    InspectDecls(rev, idx, file.decls, filePath, target)

\* findDefinitions(filePath, target) on the indexes idx; file is what the
\* parser returns for filePath
findDefinitions(rev, idx, filePath, target, file) ==
    IF ~file.parseOK THEN idx
    ELSE InspectDecls(rev, idx, file.decls, filePath, target)

(***************************************************************************)
(* Pass 2: findCallSites and the callSiteVisitor                           *)
(***************************************************************************)
\* a variant of the loop that registers a blank import under the last segment
\* of its path, as an unnamed import is registered
RECURSIVE BuildImportMapWithBlank(_, _)
BuildImportMapWithBlank(importMap, imports) ==
    IF imports = <<>> THEN importMap
    ELSE
        LET imp == Head(imports)
            path == TrimQuotes(imp.path)
            parts == Split(path, "/")
            next ==
                IF imp.name # <<>> /\ imp.name[1] # <<"_">>
                THEN Put(importMap, imp.name[1], path)
                ELSE Put(importMap, parts[Len(parts)], path)
        IN  BuildImportMapWithBlank(next, Tail(imports))

\* the loop of findCallSites over node.Imports, building the alias map
RECURSIVE BuildImportMap(_, _)
BuildImportMap(importMap, imports) ==
    IF imports = <<>> THEN importMap
    ELSE
        LET imp == Head(imports)
            path == TrimQuotes(imp.path)
            parts == Split(path, "/")
            next ==
                IF imp.name # <<>>
                THEN IF imp.name[1] = <<"_">> THEN importMap
                     ELSE Put(importMap, imp.name[1], path)
                ELSE Put(importMap, parts[Len(parts)], path)
        IN  BuildImportMap(next, Tail(imports))

\* a variant of resolveCalleeID that looks a bare identifier up in the alias
\* map first and leaves it unresolved when it names an import
resolveAliasFirst(v, fun) ==
    CASE fun.kind = "SelectorExpr" ->
            IF fun.x.kind = "Ident" /\ fun.x.name \in DOMAIN v.importMap
            THEN v.importMap[fun.x.name] \o <<".">> \o fun.sel
            ELSE Empty
      [] fun.kind = "Ident" ->
            IF fun.name \in DOMAIN v.importMap THEN Empty
            ELSE v.currentPkg \o <<".">> \o fun.name
      [] OTHER -> Empty

\* a variant of resolveCalleeID that leaves a call unresolved when the
\* identifier it starts with denotes a local declaration
resolveInScope(v, fun) ==
    CASE fun.kind = "SelectorExpr" ->
            IF /\ fun.x.kind = "Ident"
               /\ "obj" \notin DOMAIN fun.x
               /\ fun.x.name \in DOMAIN v.importMap
            THEN v.importMap[fun.x.name] \o <<".">> \o fun.sel
            ELSE Empty
      [] fun.kind = "Ident" ->
            IF "obj" \in DOMAIN fun THEN Empty
            ELSE v.currentPkg \o <<".">> \o fun.name
      [] OTHER -> Empty

\* callSiteVisitor.resolveCalleeID: the empty string when unresolved
resolveCalleeID(v, fun) ==
    CASE fun.kind = "SelectorExpr" ->
            IF fun.x.kind = "Ident" /\ fun.x.name \in DOMAIN v.importMap
            THEN v.importMap[fun.x.name] \o <<".">> \o fun.sel
            ELSE Empty
      [] fun.kind = "Ident" -> v.currentPkg \o <<".">> \o fun.name
      [] OTHER -> Empty

\* the nodes ast.Walk visits below n, in its order, when Visit returns the visitor
Children(n) ==
    CASE n.kind = "File" -> n.decls
      [] n.kind = "GenDecl" -> n.values
      [] n.kind = "CallExpr" -> <<n.fun>> \o n.args
      [] n.kind = "SelectorExpr" -> <<n.x, Ident(n.sel)>>
      [] n.kind = "StarExpr" -> <<n.x>>
      [] n.kind = "ParenExpr" -> <<n.x>>
      [] n.kind = "FuncLit" -> n.body
      [] OTHER -> <<>>

\* what is left of Visit(FuncDecl) once ast.Walk of the body has returned
PopCaller == [kind |-> "pop"]

\* a variant of the caller ID that ignores the printer's error and uses
\* whatever text was rendered
CallerIDIgnoringPrintError(rev, v, fn) == SynthID(rev, v.currentPkg, fn, v.filePath)

\* the caller ID Visit pushes for a declaration
CallerID(rev, v, fn) ==
    IF Len(fn.recv) > 0 /\ ReceiverPrintFails(rev, fn)
    THEN v.currentPkg \o <<".", "<", "?", ">">> \o fn.name
    ELSE SynthID(rev, v.currentPkg, fn, v.filePath)

\* the caller stack after Visit enters a function declaration
PushCaller(stack, id) == Append(stack, id)

\* the caller a call is attributed to
TopCaller(stack) == stack[Len(stack)]

\* a variant of the call-site branch that makes a Mapping for a callee the
\* index does not know
VisitCallAddingMappings(v, maps, n) ==
    IF Len(v.callerIDStack) > 0
    THEN LET calleeID == resolveCalleeID(v, n.fun)
             relPath == Rel(v.target.fsRoot, v.filePath)
             site == CallSite(ToSlash(relPath), n.line, TopCaller(v.callerIDStack))
         IN  IF calleeID \in DOMAIN maps
             THEN [maps EXCEPT ![calleeID].callSites = Append(@, site)]
             ELSE Put(maps, calleeID,
                      Mapping(Definition(calleeID, Empty, Empty, Empty, 0), <<site>>))
    ELSE maps

\* a variant of the call-site branch without the check of the stack depth: a
\* call outside every declaration is recorded with an empty callerId
VisitCallAtAnyDepth(v, maps, n) ==
    LET calleeID == resolveCalleeID(v, n.fun)
        caller == IF Len(v.callerIDStack) > 0 THEN TopCaller(v.callerIDStack) ELSE Empty
    IN  IF calleeID \in DOMAIN maps
        THEN LET relPath == Rel(v.target.fsRoot, v.filePath)
                 site == CallSite(ToSlash(relPath), n.line, caller)
             IN  [maps EXCEPT ![calleeID].callSites = Append(@, site)]
        ELSE maps

\* a variant of the call-site branch that records a call site once, however
\* often the same caller calls on the same line
VisitCallDeduplicating(v, maps, n) ==
    IF Len(v.callerIDStack) > 0
    THEN LET calleeID == resolveCalleeID(v, n.fun)
         IN  IF calleeID \in DOMAIN maps
             THEN LET relPath == Rel(v.target.fsRoot, v.filePath)
                      site == CallSite(ToSlash(relPath), n.line, TopCaller(v.callerIDStack))
                  IN  IF \E i \in 1..Len(maps[calleeID].callSites) :
                            maps[calleeID].callSites[i] = site
                      THEN maps
                      ELSE [maps EXCEPT ![calleeID].callSites = Append(@, site)]
             ELSE maps
    ELSE maps

\* the call-site branch of Visit: mappings after the visit of call expression n
VisitCall(v, maps, n) ==
    IF Len(v.callerIDStack) > 0
    THEN LET calleeID == resolveCalleeID(v, n.fun)
         IN  IF calleeID \in DOMAIN maps
             THEN LET relPath == Rel(v.target.fsRoot, v.filePath)
                      site == CallSite(ToSlash(relPath), n.line, TopCaller(v.callerIDStack))
                  IN  [maps EXCEPT ![calleeID].callSites = Append(@, site)]
             ELSE maps
    ELSE maps

\* a variant of the continuation that pops only after a body
DescendPopAfterBody(n) ==
    IF n.kind = "FuncDecl"
    THEN (IF n.hasBody THEN n.body \o <<PopCaller>> ELSE <<>>)
    ELSE Children(n)

\* the nodes Visit has the walk continue with after n
Descend(n) ==
    IF n.kind = "FuncDecl"
    THEN (IF n.hasBody THEN n.body ELSE <<>>) \o <<PopCaller>>
    ELSE Children(n)

\* a variant of the push that also treats a function literal as a caller,
\* under a synthetic name
EnterStackOnLiterals(rev, v, n) ==
    IF n.kind = "FuncDecl"
    THEN PushCaller(v.callerIDStack, CallerID(rev, v, n))
    ELSE IF n.kind = "FuncLit"
    THEN PushCaller(v.callerIDStack, v.currentPkg \o <<".", "f", "u", "n", "c">>)
    ELSE v.callerIDStack

\* the caller stack once Visit has looked at node n: only a function
\* declaration pushes
EnterStack(rev, v, n) ==
    IF n.kind = "FuncDecl"
    THEN PushCaller(v.callerIDStack, CallerID(rev, v, n))
    ELSE v.callerIDStack

\* one call of callSiteVisitor.Visit (or the pop that ends the visit of a
\* declaration) on the next node of the walk: [v, mappings] afterwards
Visit(rev, v, maps) ==
    LET n == Head(v.agenda)
        rest == Tail(v.agenda)
    IN  IF n.kind = "pop"
        THEN [v |-> [v EXCEPT !.callerIDStack = SubSeq(@, 1, Len(@) - 1),
                              !.agenda = rest],
              mappings |-> maps]
        ELSE [v |-> [v EXCEPT !.callerIDStack = EnterStack(rev, v, n),
                              !.agenda = Descend(n) \o rest],
              mappings |-> IF n.kind = "CallExpr" THEN VisitCall(v, maps, n) ELSE maps]

\* no file is being traversed
NoVisitor ==
    [active |-> FALSE, target |-> AnalysisTarget(Empty, Empty), filePath |-> Empty,
     importMap |-> EmptyMap, currentPkg |-> Empty, callerIDStack |-> <<>>,
     agenda |-> <<>>]

\* findCallSites up to its call of ast.Walk: the visitor it builds, or
\* NoVisitor when the file does not parse
NewVisitor(filePath, target, file) ==
    IF ~file.parseOK THEN NoVisitor
    ELSE [active |-> TRUE, target |-> target, filePath |-> filePath,
          importMap |-> BuildImportMap(EmptyMap, file.imports),
          currentPkg |-> FullPkgPath(filePath, target),
          callerIDStack |-> <<>>,
          agenda |-> <<[kind |-> "File", decls |-> file.decls]>>]

\* ast.Walk(visitor, node) to its end: the mappings once the agenda is empty
RECURSIVE WalkAll(_, _, _)
WalkAll(rev, v, maps) ==
    IF v.agenda = <<>> THEN maps
    ELSE LET r == Visit(rev, v, maps)
         IN  WalkAll(rev, r.v, r.mappings)

\* findCallSites(filePath, target) as a whole
findCallSites(rev, maps, filePath, target, file) ==
    LET v == NewVisitor(filePath, target, file)
    IN  IF v.active THEN WalkAll(rev, v, maps) ELSE maps

(***************************************************************************)
(* The Source Walker: walkAndProcess                                       *)
(***************************************************************************)
\* a variant of the match without the test for an empty pattern
SkipMatchesEmptyPattern(skipPatterns, path) ==
    \E i \in 1..Len(skipPatterns) : Contains(path, skipPatterns[i])

\* the first skip pattern that makes the callback return early, if any
SkipMatches(skipPatterns, path) ==
    \E i \in 1..Len(skipPatterns) :
        skipPatterns[i] # Empty /\ Contains(path, skipPatterns[i])

\* a variant of the condition that also hands test files on
IsSourceWithTests(isDir, path) == ~isDir /\ HasSuffix(path, <<".", "g", "o">>)

\* the condition under which the callback hands a non-skipped path on
IsSource(isDir, path) ==
    ~isDir /\ HasSuffix(path, <<".", "g", "o">>)
           /\ ~HasSuffix(path, <<"_", "t", "e", "s", "t", ".", "g", "o">>)

\* the callback's verdict on one path of the walk
WalkVerdict(skipPatterns, isDir, path) ==
    IF SkipMatches(skipPatterns, path)
    THEN (IF isDir THEN "skipdir" ELSE "skipfile")
    ELSE IF IsSource(isDir, path) THEN "process"
    ELSE "pass"

(***************************************************************************)
(* The Module Resolver and the Dependency Locator                          *)
(***************************************************************************)
\* getModulePath: os.ReadFile fails on a missing manifest; modfile.ModulePath
\* reports no error and returns the module path it finds, the empty string
\* when it finds none
getModulePath(manifest) ==
    IF manifest.status = "missing"
    THEN [err |-> TRUE, path |-> Empty]
    ELSE [err |-> FALSE, path |-> manifest.modulePath]

\* the lower-case letter of an upper-case one
ToLower(c) ==
    CASE c = "D" -> "d"
      [] c = "E" -> "e"
      [] OTHER -> c

IsUpper(c) == c \in {"D", "E"}

RECURSIVE escapeString(_)
escapeString(s) ==
    IF s = <<>> THEN <<>>
    ELSE (IF IsUpper(Head(s)) THEN <<"!", ToLower(Head(s))>> ELSE <<Head(s)>>)
            \o escapeString(Tail(s))

\* module.EscapePath: CheckPath refuses a path holding a character that is not
\* allowed in module paths
EscapePath(path) ==
    IF \E i \in 1..Len(path) : path[i] \in {"!", " ", "@"}
    THEN [err |-> TRUE, escaped |-> Empty]
    ELSE [err |-> FALSE, escaped |-> escapeString(path)]

\* a variant of the inner loop without the break: every matching prefix
\* appends a target
RECURSIVE MatchPrefixesNoBreak(_, _, _, _, _)
MatchPrefixesNoBreak(targets, req, depPrefixes, goModCache, cacheDirs) ==
    IF depPrefixes = <<>> THEN targets
    ELSE
        LET trimmedPrefix == TrimSpace(Head(depPrefixes))
            esc == EscapePath(req.path)
            depPath == Join(goModCache, esc.escaped \o <<"@">> \o req.version)
            next == IF /\ HasPrefix(req.path, trimmedPrefix)
                       /\ ~esc.err
                       /\ depPath \in cacheDirs
                    THEN Append(targets, AnalysisTarget(depPath, req.path))
                    ELSE targets
        IN  MatchPrefixesNoBreak(next, req, Tail(depPrefixes), goModCache, cacheDirs)

\* a variant of the inner loop without os.Stat: a matching requirement whose
\* path escapes becomes a target whether or not its directory exists
RECURSIVE MatchPrefixesWithoutStat(_, _, _, _, _)
MatchPrefixesWithoutStat(targets, req, depPrefixes, goModCache, cacheDirs) ==
    IF depPrefixes = <<>> THEN targets
    ELSE
        LET trimmedPrefix == TrimSpace(Head(depPrefixes))
            esc == EscapePath(req.path)
            depPath == Join(goModCache, esc.escaped \o <<"@">> \o req.version)
        IN  IF HasPrefix(req.path, trimmedPrefix) /\ ~esc.err
            THEN Append(targets, AnalysisTarget(depPath, req.path))
            ELSE MatchPrefixesWithoutStat(targets, req, Tail(depPrefixes), goModCache,
                                          cacheDirs)

\* a variant of the inner loop that passes over a prefix that is empty once
\* trimmed
RECURSIVE MatchPrefixesSkippingEmpty(_, _, _, _, _)
MatchPrefixesSkippingEmpty(targets, req, depPrefixes, goModCache, cacheDirs) ==
    IF depPrefixes = <<>> THEN targets
    ELSE
        LET trimmedPrefix == TrimSpace(Head(depPrefixes))
            esc == EscapePath(req.path)
            depPath == Join(goModCache, esc.escaped \o <<"@">> \o req.version)
        IN  IF \/ trimmedPrefix = Empty
               \/ ~HasPrefix(req.path, trimmedPrefix)
               \/ esc.err
               \/ depPath \notin cacheDirs
            THEN MatchPrefixesSkippingEmpty(targets, req, Tail(depPrefixes), goModCache,
                                            cacheDirs)
            ELSE Append(targets, AnalysisTarget(depPath, req.path))

\* the inner loop of findDependencyPaths over the prefixes, for one
\* requirement: the targets with this requirement's target appended, if any
RECURSIVE MatchPrefixes(_, _, _, _, _)
MatchPrefixes(targets, req, depPrefixes, goModCache, cacheDirs) ==
    IF depPrefixes = <<>> THEN targets
    ELSE
        LET trimmedPrefix == TrimSpace(Head(depPrefixes))
            esc == EscapePath(req.path)
            depPath == Join(goModCache, esc.escaped \o <<"@">> \o req.version)
        IN  IF ~HasPrefix(req.path, trimmedPrefix)
            THEN MatchPrefixes(targets, req, Tail(depPrefixes), goModCache, cacheDirs)
            ELSE IF esc.err
            THEN MatchPrefixes(targets, req, Tail(depPrefixes), goModCache, cacheDirs)
            ELSE IF depPath \notin cacheDirs
            THEN MatchPrefixes(targets, req, Tail(depPrefixes), goModCache, cacheDirs)
            ELSE Append(targets, AnalysisTarget(depPath, req.path))

RECURSIVE MatchRequirements(_, _, _, _, _)
MatchRequirements(targets, reqs, depPrefixes, goModCache, cacheDirs) ==
    IF reqs = <<>> THEN targets
    ELSE MatchRequirements(
            MatchPrefixes(targets, Head(reqs), depPrefixes, goModCache, cacheDirs),
            Tail(reqs), depPrefixes, goModCache, cacheDirs)

\* findDependencyPaths(projectRoot, goModCache, depPrefixes)
findDependencyPaths(manifest, goModCache, depPrefixes, cacheDirs) ==
    IF manifest.status = "missing" THEN [err |-> TRUE, targets |-> <<>>]
    ELSE IF manifest.status = "unparseable" THEN [err |-> TRUE, targets |-> <<>>]
    ELSE [err |-> FALSE,
          targets |-> MatchRequirements(<<>>, manifest.require, depPrefixes,
                                        goModCache, cacheDirs)]

(***************************************************************************)
(* Serialization                                                           *)
(***************************************************************************)
\* whether the loop over the mapping index keeps mapping m
KeepMapping(rev, m) == rev = "main" \/ Len(m.callSites) > 0

\* the loop of main over the mapping index: the mappings appended to
\* finalMappings (Go's map order is unspecified; the slice is kept as a set)
FinalMappings(rev, maps) ==
    {maps[id] : id \in {k \in DOMAIN maps : KeepMapping(rev, maps[k])}}

\* json.MarshalIndent of finalMappings: a slice nothing was appended to is
\* nil and marshals to null
MarshalIndent(final) ==
    IF final = {} THEN [json |-> "null", elems |-> {}]
    ELSE [json |-> "array", elems |-> final]

NoFile == [json |-> "none", elems |-> {}]

(***************************************************************************)
(* The inputs of a run: flags, manifest, module cache and source trees.    *)
(***************************************************************************)
F == <<"F">>
G == <<"G">>
H == <<"H">>
T == <<"T">>
Root == <<"r">>
Mod == <<"m">>
Cache == <<"c">>
DepRoot == <<"c", "/", "d", "@", "v">>

\* a source file of the tree under root
SrcFile(root, dir, name, parseOK, imports, decls) ==
    [root |-> root, dir |-> dir, name |-> name, parseOK |-> parseOK,
     imports |-> imports, decls |-> decls]

ImportSpec(name, path) == [name |-> name, path |-> <<"\"">> \o path \o <<"\"">>]

\* the back quote character, which a TLA+ string cannot hold
BackQuote == "BQ"

\* an import whose path is written as a raw string literal, between back quotes
RawImportSpec(name, path) ==
    [name |-> name, path |-> <<BackQuote>> \o path \o <<BackQuote>>]

Recv(type, printErr) == <<[type |-> type, printErr |-> printErr]>>

\* a call wrapped in d function literals that are called on the spot:
\* func(){ func(){ f() }() }()
RECURSIVE InLits(_, _)
InLits(call, d) ==
    IF d = 0 THEN call
    ELSE CallExpr(FuncLit(<<InLits(call, d - 1)>>), <<>>, call.line)

\* k copies of statement s
RECURSIVE Repeat(_, _)
Repeat(st, k) == IF k = 0 THEN <<>> ELSE <<st>> \o Repeat(st, k - 1)

OkManifest == [status |-> "ok", modulePath |-> Mod, require |-> <<>>]

\* the flags and the environment outside the source trees, at their defaults
BaseWorld(rev, fs) ==
    [rev |-> rev, skipRaw |-> Empty, analyzeDeps |-> Empty, gopath |-> Cache,
     goEnvOk |-> TRUE, serveAddr |-> Empty, manifest |-> OkManifest,
     cacheDirs |-> {}, fs |-> fs]

Revs == {"main", "skip"}

\* ---- callee shapes and import lists (call resolution) ----
X == <<"x">>
U == <<"u">>
PathX == <<"m", "/", "x">>

ImportLists ==
    { <<>>,
      <<ImportSpec(<<>>, PathX)>>,
      <<ImportSpec(<<U>>, PathX)>>,
      <<ImportSpec(<<<<"_">>>>, PathX)>>,
      <<ImportSpec(<<F>>, PathX)>>,
      <<ImportSpec(<<>>, PathX), ImportSpec(<<X>>, Mod)>>,
      <<ImportSpec(<<X>>, Mod), ImportSpec(<<>>, PathX)>>,
      <<RawImportSpec(<<>>, PathX)>> }

CalleeShapes ==
    { Ident(F), Ident(H),
      SelectorExpr(Ident(X), F), SelectorExpr(Ident(U), F),
      SelectorExpr(Ident(F), F), SelectorExpr(Ident(<<"_">>), F),
      SelectorExpr(Ident(T), F),
      SelectorExpr(ParenExpr(Ident(X)), F),
      SelectorExpr(SelectorExpr(Ident(X), T), F),
      ParenExpr(Ident(F)) }

\* the file in package m/x that declares F
CalleeFileX == SrcFile(Root, X, <<"a", ".", "g", "o">>, TRUE, <<>>,
                       <<FuncDecl(F, <<>>, TRUE, <<>>, 1)>>)

\* r/a.go: the callee F of package m, caller G (a function or a method)
\* whose body is k copies of one call, and a package-level variable
\* initialised by the same call
CallerFile(imports, recv, hasBody, shape, depth, k) ==
    SrcFile(Root, Empty, <<"a", ".", "g", "o">>, TRUE, imports,
        <<FuncDecl(F, <<>>, TRUE, <<>>, 1),
          FuncDecl(G, recv, hasBody,
                   IF hasBody THEN Repeat(InLits(CallExpr(shape, <<>>, 3), depth), k)
                   ELSE <<>>, 2),
          GenDecl(<<CallExpr(shape, <<>>, 5)>>)>>)

\* every import list against every callee shape, at every literal depth
ResolutionWorlds ==
    { BaseWorld(rev, {CallerFile(imports, <<>>, TRUE, shape, depth, 1), CalleeFileX}) :
        rev \in Revs, imports \in ImportLists, shape \in CalleeShapes,
        depth \in 0..MaxLitDepth }

\* ---- receivers ----
RecvChoices ==
    { <<>>, Recv(Ident(T), FALSE), Recv(StarExpr(Ident(T)), FALSE),
      Recv(Ident(T), TRUE) }

\* every kind of caller declaration around calls of F
CallerWorlds ==
    { BaseWorld(rev, {CallerFile(<<>>, recv, hasBody, Ident(F), depth, k)}) :
        rev \in Revs, recv \in RecvChoices, hasBody \in BOOLEAN,
        depth \in 0..MaxLitDepth, k \in 0..MaxCalls }

\* ---- two files whose declarations may synthesize the same ID ----
AGo == <<"a", ".", "g", "o">>
BGo == <<"b", ".", "g", "o">>
DirP == <<"p">>
DirPT == <<"p", ".", "T">>

\* a file with the one declaration F, which calls F() or nothing
OneDeclFile(dir, name, parseOK, recv, calls) ==
    SrcFile(Root, dir, name, parseOK, <<>>,
        <<FuncDecl(F, recv, TRUE,
                   IF calls THEN <<CallExpr(Ident(F), <<>>, 2)>> ELSE <<>>, 1)>>)

FilePairs ==
    { <<[dir |-> Empty, name |-> AGo], [dir |-> Empty, name |-> BGo]>>,
      <<[dir |-> DirP, name |-> AGo], [dir |-> DirPT, name |-> AGo]>>,
      <<[dir |-> Empty, name |-> AGo], [dir |-> DirP, name |-> AGo]>> }

IndexWorlds ==
    { BaseWorld(rev, {OneDeclFile(pr[1].dir, pr[1].name, TRUE, recv1, calls1),
                      OneDeclFile(pr[2].dir, pr[2].name, parseOK2, recv2, calls2)}) :
        rev \in Revs, pr \in FilePairs, recv1 \in RecvChoices, calls1 \in BOOLEAN,
        recv2 \in RecvChoices, calls2 \in BOOLEAN, parseOK2 \in BOOLEAN }

\* ---- the walked tree against the skip list ----
ATestGo == <<"a", "_", "t", "e", "s", "t", ".", "g", "o">>
AMd == <<"a", ".", "m", "d">>

\* r/a.go calls x.F; r/b.go declares F again, calling itself; r/x/a.go calls m.F;
\* r/a_test.go and r/a.md call F
SkipTree ==
    { SrcFile(Root, Empty, BGo, TRUE, <<>>,
        <<FuncDecl(F, <<>>, TRUE, <<CallExpr(Ident(F), <<>>, 4)>>, 3)>>),
      SrcFile(Root, Empty, AGo, TRUE, <<ImportSpec(<<>>, PathX)>>,
        <<FuncDecl(F, <<>>, TRUE, <<CallExpr(SelectorExpr(Ident(X), F), <<>>, 2)>>, 1)>>),
      SrcFile(Root, X, AGo, TRUE, <<ImportSpec(<<>>, Mod)>>,
        <<FuncDecl(F, <<>>, TRUE, <<CallExpr(SelectorExpr(Ident(Mod), F), <<>>, 2)>>, 1)>>),
      SrcFile(Root, Empty, ATestGo, TRUE, <<>>,
        <<FuncDecl(G, <<>>, TRUE, <<CallExpr(Ident(F), <<>>, 2)>>, 1)>>),
      SrcFile(Root, Empty, AMd, TRUE, <<>>,
        <<FuncDecl(H, <<>>, TRUE, <<CallExpr(Ident(F), <<>>, 2)>>, 1)>>) }

\* the values of the -skip flag
SkipFlags ==
    { Empty, <<",">>, <<"x">>, <<"x", ",">>, <<"r">>, <<"x", "/", "a">>,
      <<"a", ".", "g", "o">>, <<"_", "t", "e", "s", "t">>, <<" ", "x">> }

SkipWorlds ==
    { [BaseWorld("skip", fs) EXCEPT !.skipRaw = skip] :
        skip \in SkipFlags, fs \in (SUBSET SkipTree) \ {{}} }
    \cup { BaseWorld("main", fs) : fs \in (SUBSET SkipTree) \ {{}} }

\* ---- manifest, module cache and flags ----
D == <<"d">>
V == <<"v">>

Manifests ==
    { [status |-> "missing", modulePath |-> Empty, require |-> <<>>],
      [status |-> "unparseable", modulePath |-> Empty, require |-> <<>>],
      [status |-> "unparseable", modulePath |-> Mod, require |-> <<>>],
      [status |-> "ok", modulePath |-> Mod,
       require |-> <<[path |-> D, version |-> V]>>] }

\* r/a.go and the dependency's a.go: F calls F
FlagTree ==
    { OneDeclFile(Empty, AGo, TRUE, <<>>, TRUE),
      [OneDeclFile(Empty, AGo, TRUE, <<>>, TRUE) EXCEPT !.root = DepRoot] }

FlagWorlds ==
    { [BaseWorld(rev, FlagTree) EXCEPT
            !.manifest = manifest, !.analyzeDeps = deps, !.gopath = gopath,
            !.goEnvOk = goEnvOk, !.serveAddr = serve, !.cacheDirs = cacheDirs] :
        rev \in Revs, manifest \in Manifests, deps \in {Empty, D},
        gopath \in {Cache}, goEnvOk \in {TRUE}, serve \in {Empty, <<":", "8">>},
        cacheDirs \in {{}, {DepRoot}} }
    \cup { [BaseWorld(rev, FlagTree) EXCEPT !.gopath = Empty, !.goEnvOk = ok] :
            rev \in Revs, ok \in BOOLEAN }

\* ---- requirements, prefixes and module cache (the Dependency Locator) ----
E == <<"e">>
UpperD == <<"D">>
BadPath == <<"d", "!">>

Req(path, version) == [path |-> path, version |-> version]

CacheDir(escaped) == Join(Cache, escaped \o <<"@">> \o V)

RequireLists ==
    { <<Req(D, V), Req(E, V)>>,
      <<Req(E, V), Req(D, V)>>,
      <<Req(UpperD, V), Req(E, V)>>,
      <<Req(BadPath, V), Req(D, V)>>,
      <<Req(<<"d", "e">>, V), Req(D, V)>> }

\* the values of the -analyze-deps flag
DepFlags ==
    { D, <<" ", "d", " ">>, <<"d", ",", "d">>, <<"d", ",", "e", ",", "d">>,
      UpperD, X, <<"x", ",">>, <<" ">> }

CacheDirSets ==
    { {}, {CacheDir(D)}, {CacheDir(E)}, {CacheDir(D), CacheDir(E)},
      {CacheDir(<<"!", "d">>), CacheDir(E)},
      {CacheDir(D), CacheDir(E), CacheDir(BadPath), CacheDir(UpperD)} }

\* r/a.go and a.go in the cache directories of d and e: F calls F
DepTree ==
    FlagTree \cup {[OneDeclFile(Empty, AGo, TRUE, <<>>, TRUE) EXCEPT !.root = CacheDir(E)]}

DepWorlds ==
    { [BaseWorld(rev, DepTree) EXCEPT
            !.manifest = [status |-> "ok", modulePath |-> Mod, require |-> reqs],
            !.analyzeDeps = deps, !.cacheDirs = dirs] :
        rev \in Revs, reqs \in RequireLists, deps \in DepFlags, dirs \in CacheDirSets }

\* ---- a directory whose name ends in .go (the Source Walker) ----
DirVGo == <<"v", ".", "g", "o">>

\* r/v.go/a.go declares F; r/v.go/a_test.go declares G
WalkerTree ==
    { SrcFile(Root, DirVGo, AGo, TRUE, <<>>, <<FuncDecl(F, <<>>, TRUE, <<>>, 1)>>),
      SrcFile(Root, DirVGo, ATestGo, TRUE, <<>>, <<FuncDecl(G, <<>>, TRUE, <<>>, 1)>>) }

WalkerWorlds ==
    { [BaseWorld("skip", WalkerTree) EXCEPT !.skipRaw = skip] :
        skip \in {Empty, DirVGo, AGo, <<",">>} }
    \cup { BaseWorld("main", WalkerTree) }

\* ---- a module whose path is a dependency's path, a dot and a type name ----
ModDT == <<"d", ".", "T">>

\* module d.T at r declares the function F, which calls F; its requirement d,
\* in the module cache, declares the method F of type T
CollisionWorlds ==
    { [BaseWorld(rev, {OneDeclFile(Empty, AGo, TRUE, <<>>, TRUE),
                       [OneDeclFile(Empty, AGo, TRUE, Recv(Ident(T), FALSE), calls)
                            EXCEPT !.root = DepRoot]}) EXCEPT
            !.manifest = [status |-> "ok", modulePath |-> ModDT,
                          require |-> <<Req(D, V)>>],
            !.analyzeDeps = D, !.cacheDirs = {DepRoot}] :
        rev \in Revs, calls \in BOOLEAN }

\* ---- calls through identifiers that are declared inside the function ----
ScopedShapes ==
    { LocalIdent(F, "var"), LocalIdent(F, "typ"),
      SelectorExpr(LocalIdent(X, "var"), F), SelectorExpr(LocalIdent(X, "typ"), F),
      SelectorExpr(LocalIdent(U, "var"), F) }

\* r/a.go imports m/x and declares F; in G the name F, or x, is a local
\* variable, a parameter or a local type
ScopeWorlds ==
    { BaseWorld(rev, {CallerFile(<<ImportSpec(<<>>, PathX)>>, recv, TRUE, shape, depth, 1),
                      CalleeFileX}) :
        rev \in Revs, recv \in {<<>>, Recv(StarExpr(Ident(T)), FALSE)},
        shape \in ScopedShapes, depth \in {0, 1} }

\* ---- skip substrings that occur in the root of a target ----
\* the values of the -skip flag: the root of the main module, parts of the
\* cache directory, a blank before the root, a blank before the file name
RootSkipFlags ==
    { Root, <<"@">>, <<"c", "/">>, <<" ", "r">>, <<" ", "a">>, <<"d", "@", "v", ",", "x">> }

PruneWorlds ==
    { [BaseWorld("skip", FlagTree) EXCEPT
            !.skipRaw = skip, !.analyzeDeps = D, !.cacheDirs = {DepRoot},
            !.manifest = [status |-> "ok", modulePath |-> Mod,
                          require |-> <<[path |-> D, version |-> V]>>]] :
        skip \in RootSkipFlags }

Worlds == ResolutionWorlds \cup CallerWorlds \cup IndexWorlds \cup SkipWorlds
            \cup FlagWorlds \cup DepWorlds \cup WalkerWorlds \cup CollisionWorlds
            \cup ScopeWorlds \cup PruneWorlds

(***************************************************************************)
(* The walk of one target's tree (filepath.WalkDir)                        *)
(***************************************************************************)
TargetFiles(w, root) == {f \in w.fs : f.root = root}

RootEntry == [isDir |-> TRUE, rel |-> Empty]

\* everything WalkDir finds under root: the root, its directories, its files
Entries(w, root) ==
    {RootEntry}
        \cup {[isDir |-> TRUE, rel |-> f.dir] : f \in {g \in TargetFiles(w, root) : g.dir # Empty}}
        \cup {[isDir |-> FALSE, rel |-> Join(f.dir, f.name)] : f \in TargetFiles(w, root)}

\* a variant of the callback's path that leaves the root out
EntryPathBelowRoot(root, e) == e.rel

\* the path WalkDir passes to the callback
EntryPath(root, e) == Join(root, e.rel)

\* the file behind a file entry
FileAt(w, root, e) ==
    CHOOSE f \in TargetFiles(w, root) : Join(f.dir, f.name) = e.rel

\* e lies in the directory of entry d (or is d)
Under(d, e) == d.rel = Empty \/ e = d \/ HasPrefix(e.rel, d.rel \o <<"/">>)

\* WalkDir reaches an entry only after the directories above it
Eligible(e, left) ==
    \/ e = RootEntry
    \/ /\ RootEntry \notin left
       /\ \A d \in left : d.isDir => ~(d # e /\ Under(d, e))

\* the entries left after the callback's verdict on e
AfterEntry(left, e, verdict) ==
    IF verdict = "skipdir" THEN {x \in left : ~Under(e, x)} ELSE left \ {e}

(***************************************************************************)
(* The run: main                                                           *)
(***************************************************************************)
VARIABLES
    world,            \* flags, manifest, module cache and source trees
    pc,               \* where main is
    skipPatterns,     \* the -skip flag, split
    goModCache,       \* the module cache root
    analysisTargets,  \* the targets of both passes
    ti,               \* index of the target being walked
    todo,             \* entries of that target's tree not walked yet
    definitions,      \* the definition index
    mappings,         \* the mapping index
    v,                \* the callSiteVisitor of the file being traversed
    outFile,          \* the content of the output file
    handed            \* history: the paths the walks handed to each pass

vars == <<world, pc, skipPatterns, goModCache, analysisTargets, ti, todo,
          definitions, mappings, v, outFile, handed>>

Init ==
    /\ world \in Worlds
    /\ pc = "start"
    /\ skipPatterns = <<>>
    /\ goModCache = Empty
    /\ analysisTargets = <<>>
    /\ ti = 0
    /\ todo = {}
    /\ definitions = EmptyMap
    /\ mappings = EmptyMap
    /\ v = NoVisitor
    /\ outFile = NoFile
    /\ handed = {}

\* the history once the callback has returned verdict on path during pass
Handed(h, pass, path, verdict) ==
    IF verdict = "process" THEN h \cup {[pass |-> pass, path |-> path]} ELSE h

\* the -skip flag as main splits it (main.go has no such flag)
SplitSkip(w) ==
    IF w.rev = "skip" /\ w.skipRaw # Empty THEN Split(w.skipRaw, ",") ELSE <<>>

\* log.Fatalf: the run ends with a non-zero exit code
Fatal ==
    /\ pc' = "fatal"
    /\ UNCHANGED <<world, skipPatterns, goModCache, analysisTargets, ti, todo,
                   definitions, mappings, v, outFile, handed>>

\* the first pass begins on the first target
BeginPass(p, targets) ==
    /\ pc' = p
    /\ ti' = 1
    /\ todo' = Entries(world, targets[1].fsRoot)

\* where main goes once the walk of target ti has nothing left
AfterWalk(left) ==
    IF left # {} THEN /\ pc' = pc /\ ti' = ti /\ todo' = left
    ELSE IF ti < Len(analysisTargets)
    THEN /\ pc' = pc /\ ti' = ti + 1
         /\ todo' = Entries(world, analysisTargets[ti + 1].fsRoot)
    ELSE IF pc = "pass1" THEN BeginPass("pass2", analysisTargets)
    ELSE /\ pc' = "serialize" /\ ti' = ti /\ todo' = {}

\* main up to the list of targets: flags, module cache, getModulePath
ResolveModule ==
    /\ pc = "start"
    /\ LET mod == getModulePath(world.manifest)
           targets == <<AnalysisTarget(Root, mod.path)>>
       IN  IF (world.gopath = Empty /\ ~world.goEnvOk) \/ mod.err
           THEN Fatal
           ELSE /\ skipPatterns' = SplitSkip(world)
                /\ goModCache' = (IF world.gopath = Empty THEN Cache ELSE world.gopath)
                /\ analysisTargets' = targets
                /\ IF world.analyzeDeps # Empty
                   THEN /\ pc' = "deps"
                        /\ UNCHANGED <<ti, todo>>
                   ELSE BeginPass("pass1", targets)
                /\ UNCHANGED <<world, definitions, mappings, v, outFile, handed>>

\* main's -analyze-deps branch
LocateDependencies ==
    /\ pc = "deps"
    /\ LET depPrefixes == Split(world.analyzeDeps, ",")
           r == findDependencyPaths(world.manifest, goModCache, depPrefixes,
                                    world.cacheDirs)
       IN  IF r.err THEN Fatal
           ELSE /\ analysisTargets' = analysisTargets \o r.targets
                /\ BeginPass("pass1", analysisTargets \o r.targets)
                /\ UNCHANGED <<world, skipPatterns, goModCache, definitions,
                               mappings, v, outFile, handed>>

\* one callback of walkAndProcess(target, findDefinitions)
Pass1Entry ==
    /\ pc = "pass1"
    /\ \E e \in todo :
        /\ Eligible(e, todo)
        /\ LET target == analysisTargets[ti]
               path == EntryPath(target.fsRoot, e)
               verdict == WalkVerdict(skipPatterns, e.isDir, path)
               idx == [definitions |-> definitions, mappings |-> mappings]
               next == IF verdict = "process"
                       THEN findDefinitions(world.rev, idx, path, target,
                                            FileAt(world, target.fsRoot, e))
                       ELSE idx
           IN  /\ definitions' = next.definitions
               /\ mappings' = next.mappings
               /\ handed' = Handed(handed, "pass1", path, verdict)
               /\ AfterWalk(AfterEntry(todo, e, verdict))
    /\ UNCHANGED <<world, skipPatterns, goModCache, analysisTargets, v, outFile>>

\* one callback of walkAndProcess(target, findCallSites), up to the start of
\* the file's traversal
Pass2Entry ==
    /\ pc = "pass2"
    /\ ~v.active
    /\ \E e \in todo :
        /\ Eligible(e, todo)
        /\ LET target == analysisTargets[ti]
               path == EntryPath(target.fsRoot, e)
               verdict == WalkVerdict(skipPatterns, e.isDir, path)
               nv == IF verdict = "process"
                     THEN NewVisitor(path, target, FileAt(world, target.fsRoot, e))
                     ELSE NoVisitor
               left == AfterEntry(todo, e, verdict)
           IN  /\ v' = nv
               /\ handed' = Handed(handed, "pass2", path, verdict)
               /\ IF nv.active
                  THEN /\ pc' = pc /\ ti' = ti /\ todo' = left
                  ELSE AfterWalk(left)
    /\ UNCHANGED <<world, skipPatterns, goModCache, analysisTargets,
                   definitions, mappings, outFile>>

\* one call of Visit during ast.Walk; the traversal ends with the agenda
VisitStep ==
    /\ pc = "pass2"
    /\ v.active
    /\ LET r == Visit(world.rev, v, mappings)
       IN  /\ mappings' = r.mappings
           /\ IF r.v.agenda = <<>>
              THEN /\ v' = NoVisitor
                   /\ AfterWalk(todo)
              ELSE /\ v' = r.v
                   /\ UNCHANGED <<pc, ti, todo>>
    /\ UNCHANGED <<world, skipPatterns, goModCache, analysisTargets,
                   definitions, outFile, handed>>

\* a variant in which the callback answers an error with filepath.SkipDir and
\* the walk goes on without the directory
WalkErrorSkippingDirectory ==
    /\ pc \in {"pass1", "pass2"}
    /\ ~v.active
    /\ \E e \in todo :
        /\ e.isDir
        /\ Eligible(e, todo)
        /\ \/ e = RootEntry
           \/ WalkVerdict(skipPatterns, TRUE,
                          EntryPath(analysisTargets[ti].fsRoot, e)) # "skipdir"
        /\ AfterWalk(AfterEntry(todo, e, "skipdir"))
    /\ UNCHANGED <<world, skipPatterns, goModCache, analysisTargets,
                   definitions, mappings, v, outFile, handed>>

\* WalkDir hands the callback an error (the root cannot be opened, or a
\* directory that was not pruned cannot be read): the callback returns it and
\* main ends the run
WalkError ==
    /\ pc \in {"pass1", "pass2"}
    /\ ~v.active
    /\ \E e \in todo :
        /\ e.isDir
        /\ Eligible(e, todo)
        /\ \/ e = RootEntry
           \/ WalkVerdict(skipPatterns, TRUE,
                          EntryPath(analysisTargets[ti].fsRoot, e)) # "skipdir"
    /\ Fatal

\* a variant of the serialization step that goes on when os.WriteFile fails
SerializeIgnoringWriteError ==
    /\ pc = "serialize"
    /\ \E writeOk \in BOOLEAN :
        /\ outFile' = IF writeOk
                      THEN MarshalIndent(FinalMappings(world.rev, mappings))
                      ELSE outFile
        /\ pc' = "written"
        /\ UNCHANGED <<world, skipPatterns, goModCache, analysisTargets, ti,
                       todo, definitions, mappings, v, handed>>

\* main from the loop over the mapping index to os.WriteFile
Serialize ==
    /\ pc = "serialize"
    /\ \E writeOk \in BOOLEAN :
        IF writeOk
        THEN /\ outFile' = MarshalIndent(FinalMappings(world.rev, mappings))
             /\ pc' = "written"
             /\ UNCHANGED <<world, skipPatterns, goModCache, analysisTargets, ti,
                            todo, definitions, mappings, v, handed>>
        ELSE Fatal

\* main's last statement: serveVisualization when -serve is set
Serve ==
    /\ pc = "written"
    /\ IF world.serveAddr = Empty
       THEN pc' = "done"
       ELSE \E bound \in BOOLEAN : pc' = IF bound THEN "serving" ELSE "fatal"
    /\ UNCHANGED <<world, skipPatterns, goModCache, analysisTargets, ti, todo,
                   definitions, mappings, v, outFile, handed>>

Next ==
    \/ ResolveModule
    \/ LocateDependencies
    \/ Pass1Entry
    \/ Pass2Entry
    \/ VisitStep
    \/ WalkError
    \/ Serialize
    \/ Serve

Spec == Init /\ [][Next]_vars

(***************************************************************************)
(* What a run reads, computed from its inputs alone (used to state the     *)
(* properties below).                                                      *)
(***************************************************************************)
Range(sq) == {sq[i] : i \in 1..Len(sq)}

RelOf(f) == Join(f.dir, f.name)

FullPath(f) == Join(f.root, RelOf(f))

\* the file is handed to the pass processor: no skip pattern prunes the root
\* or the file's directory, none matches the file, and it is a source file
Admitted(skip, f) ==
    /\ WalkVerdict(skip, TRUE, f.root) # "skipdir"
    /\ f.dir = Empty \/ WalkVerdict(skip, TRUE, Join(f.root, f.dir)) # "skipdir"
    /\ WalkVerdict(skip, FALSE, FullPath(f)) = "process"

\* the files both passes parse successfully, with their targets
ParsedFiles ==
    UNION { { [target |-> t, file |-> f] :
                f \in {g \in world.fs : /\ g.root = t.fsRoot
                                        /\ g.parseOK
                                        /\ Admitted(skipPatterns, g)} } :
            t \in Range(analysisTargets) }

\* the function declarations of the parsed files
ParsedDecls ==
    UNION { { [target |-> pf.target, file |-> pf.file, decl |-> d] :
                d \in {x \in Range(pf.file.decls) : x.kind = "FuncDecl"} } :
            pf \in ParsedFiles }

\* the call expressions below a list of nodes, with the number of function
\* literals around each
RECURSIVE CallsIn(_, _)
CallsIn(nodes, lit) ==
    IF nodes = <<>> THEN {}
    ELSE LET n == Head(nodes)
             here ==
                CASE n.kind = "CallExpr" ->
                        {[call |-> n, lit |-> lit]} \cup CallsIn(<<n.fun>> \o n.args, lit)
                  [] n.kind = "FuncLit" -> CallsIn(n.body, lit + 1)
                  [] n.kind = "SelectorExpr" -> CallsIn(<<n.x>>, lit)
                  [] n.kind = "ParenExpr" -> CallsIn(<<n.x>>, lit)
                  [] n.kind = "GenDecl" -> CallsIn(n.values, lit)
                  [] OTHER -> {}
         IN  here \cup CallsIn(Tail(nodes), lit)

\* the calls in the bodies of the parsed declarations
BodyCalls ==
    UNION { { [target |-> pd.target, file |-> pd.file, decl |-> pd.decl,
               call |-> c.call, lit |-> c.lit] : c \in CallsIn(pd.decl.body, 0) } :
            pd \in {x \in ParsedDecls : x.decl.hasBody} }

\* the visitor findCallSites builds for a parsed file
VisitorOf(pf) == NewVisitor(FullPath(pf.file), pf.target, pf.file)

\* every call site of the mapping index, with the ID it is recorded against
AllSites ==
    UNION { { [callee |-> id, site |-> mappings[id].callSites[i]] :
                i \in 1..Len(mappings[id].callSites) } : id \in DOMAIN mappings }

PassesDone == pc \in {"serialize", "written", "done", "serving"}

Pass1Done == pc = "pass2" \/ PassesDone

\* C1: the output file holds no Mapping whose callSites list is empty.
C1_NonEmptyMappings ==
    \A m \in outFile.elems : Len(m.callSites) > 0

C1_EmptyMappingEmitted ==
    /\ pc = "done"
    /\ \E m \in outFile.elems : m.callSites = <<>>

ExpectedCaller(bc) ==
    CallerID(world.rev, VisitorOf([target |-> bc.target, file |-> bc.file]), bc.decl)

\* the call sites recorded for a line of a file
SitesAt(rel, line) ==
    {s \in AllSites : s.site.filePath = rel /\ s.site.line = line}

\* the function declarations of the file being traversed
DeclsOfVisited ==
    UNION { {d \in Range(f.decls) : d.kind = "FuncDecl"} :
            f \in {g \in world.fs : FullPath(g) = v.filePath} }

\* C3: a resolved call inside function literals, at any nesting depth, in the
\* body of a declaration D is recorded with the caller ID of D: every call
\* site of its line names D as the caller, the call site is there once Pass 2
\* is over, and during the traversal the caller stack holds nothing but the
\* ID of the declaration being visited (no literal pushes).
C3_LiteralCallsAttributedToEnclosingDecl ==
    /\ \A bc \in {x \in BodyCalls : x.lit >= 1} :
        /\ \A s \in SitesAt(RelOf(bc.file), bc.call.line) :
                s.site.callerId = ExpectedCaller(bc)
        /\ LET callee == resolveCalleeID(
                            VisitorOf([target |-> bc.target, file |-> bc.file]),
                            bc.call.fun)
           IN  PassesDone /\ callee \in DOMAIN definitions =>
                    \E s \in SitesAt(RelOf(bc.file), bc.call.line) :
                        /\ s.callee = callee
                        /\ s.site.callerId = ExpectedCaller(bc)
    /\ v.active /\ v.callerIDStack # <<>> =>
            \E d \in DeclsOfVisited :
                v.callerIDStack = <<CallerID(world.rev, v, d)>>

\* C3: Pass 2 is over and a call nested in MaxLitDepth literals in the body of
\* a method is recorded against the method.
C3_NestedCallRecorded ==
    /\ PassesDone
    /\ \E bc \in BodyCalls :
        /\ bc.lit = MaxLitDepth
        /\ bc.decl.recv # <<>>
        /\ \E s \in SitesAt(RelOf(bc.file), bc.call.line) :
                s.site.callerId = ExpectedCaller(bc)

\* the declarations Pass 1 indexes, with the ID it gives each
IndexedDecls ==
    { [package |-> FullPkgPath(FullPath(pd.file), pd.target),
       recv |-> IF pd.decl.recv = <<>> THEN <<>>
                ELSE <<ReceiverType(world.rev, pd.decl, FullPath(pd.file))>>,
       name |-> pd.decl.name,
       id |-> SynthID(world.rev, FullPkgPath(FullPath(pd.file), pd.target),
                      pd.decl, FullPath(pd.file))] :
        pd \in {x \in ParsedDecls :
                    x.decl.recv = <<>> \/ ~ReceiverPrintFails(world.rev, x.decl)} }

\* C4: once Pass 1 is over, two indexed declarations that differ in package
\* path, in receiver type text (a free function has none) or in name have
\* different IDs, each a key of the definition index.
C4_IDsGloballyUnique ==
    Pass1Done =>
        \A d1, d2 \in IndexedDecls :
            /\ d1.id \in DOMAIN definitions
            /\ (d1.package # d2.package \/ d1.recv # d2.recv \/ d1.name # d2.name)
                    => d1.id # d2.id

\* C4: Pass 1 is over and a method and a free function of different packages
\* are indexed.
C4_TwoDeclsOneID ==
    /\ Pass1Done
    /\ \E d1, d2 \in IndexedDecls :
        d1.package # d2.package /\ d1.recv # <<>> /\ d2.recv = <<>> /\ d1.id = d2.id

(***************************************************************************)
(* The two passes over the admitted files in one fixed order: what a run   *)
(* computes when the walk feeds the files in that order.                   *)
(***************************************************************************)
RECURSIVE SetToSeq(_)
SetToSeq(S) ==
    IF S = {} THEN <<>>
    ELSE LET x == CHOOSE y \in S : TRUE
         IN  <<x>> \o SetToSeq(S \ {x})

\* the files the walks hand to the passes under the skip patterns skip, target
\* after target
RECURSIVE FilesInOrder(_, _)
FilesInOrder(skip, targets) ==
    IF targets = <<>> THEN <<>>
    ELSE LET t == Head(targets)
             fs == {f \in TargetFiles(world, t.fsRoot) : Admitted(skip, f)}
         IN  SetToSeq({[target |-> t, file |-> f] : f \in fs})
                \o FilesInOrder(skip, Tail(targets))

RECURSIVE RunPass1(_, _)
RunPass1(idx, files) ==
    IF files = <<>> THEN idx
    ELSE RunPass1(findDefinitions(world.rev, idx, FullPath(Head(files).file),
                                  Head(files).target, Head(files).file),
                  Tail(files))

RECURSIVE RunPass2(_, _)
RunPass2(maps, files) ==
    IF files = <<>> THEN maps
    ELSE RunPass2(findCallSites(world.rev, maps, FullPath(Head(files).file),
                                Head(files).target, Head(files).file),
                  Tail(files))

\* the output file of that run
RunOutput(skip) ==
    LET files == FilesInOrder(skip, analysisTargets)
        idx == RunPass1([definitions |-> EmptyMap, mappings |-> EmptyMap], files)
    IN  MarshalIndent(FinalMappings(world.rev, RunPass2(idx.mappings, files)))

\* a list of call sites up to its order: how often each call site occurs
SortedSites(sites) ==
    [s \in Range(sites) |-> Cardinality({i \in 1..Len(sites) : sites[i] = s})]

\* an output as a set of Mappings whose callSites are sorted
Sorted(out) ==
    {[definition |-> m.definition, callSites |-> SortedSites(m.callSites)] :
        m \in out.elems}

\* C5: whatever the order in which the files were fed to Pass 1 and to Pass 2,
\* the output is the same set of Mappings as that of the run in the fixed
\* order, once the callSites of each Mapping are sorted.
C5_OrderInsensitive ==
    pc = "written" => Sorted(outFile) = Sorted(RunOutput(skipPatterns))

\* C5: an output whose Mappings have the same IDs and the same sorted call
\* sites as those of the run in the fixed order, but another Definition.
C5_OrderChangesDefinition ==
    /\ pc = "written"
    /\ Sorted(outFile) # Sorted(RunOutput(skipPatterns))
    /\ \A m \in outFile.elems : \E m0 \in RunOutput(skipPatterns).elems :
        /\ m0.definition.id = m.definition.id
        /\ SortedSites(m0.callSites) = SortedSites(m.callSites)

\* the call sites of an output, each with the ID it is recorded against
SitesOf(out) ==
    UNION { { [callee |-> m.definition.id, site |-> m.callSites[i]] :
                i \in 1..Len(m.callSites) } : m \in out.elems }

IDsOf(out) == {m.definition.id : m \in out.elems}

\* some non-empty skip pattern occurs in the traversal path of the file rel of
\* some target
PathSkipped(rel) ==
    \E t \in Range(analysisTargets) : \E i \in 1..Len(skipPatterns) :
        /\ skipPatterns[i] # Empty
        /\ Contains(Join(t.fsRoot, rel), skipPatterns[i])

\* the files that declare the ID id, relative to their roots
DeclaringFiles(id) ==
    { RelOf(f) : f \in {g \in world.fs :
        \E t \in Range(analysisTargets) : \E k \in 1..Len(g.decls) :
            /\ g.root = t.fsRoot
            /\ g.decls[k].kind = "FuncDecl"
            /\ id = SynthID(world.rev, FullPkgPath(FullPath(g), t), g.decls[k],
                            FullPath(g))} }

NamedOrPlain(f) ==
    {i \in 1..Len(f.imports) :
        f.imports[i].name = <<>> \/ f.imports[i].name[1] # <<"_">>}

\* the text of an import path after its last "/"
LastSegment(path) == SubSeq(path, LastIndexOf(path, "/", Len(path)) + 1, Len(path))

\* the key under which import i of file f is known in the file
AliasOf(f, i) ==
    IF f.imports[i].name # <<>> THEN f.imports[i].name[1]
    ELSE LastSegment(TrimQuotes(f.imports[i].path))

\* the keys of the import alias map of file f
AliasKeys(f) == {AliasOf(f, i) : i \in NamedOrPlain(f)}

\* the import path of alias key k of file f: the last import of that key
AliasPath(f, k) ==
    LET last == CHOOSE i \in NamedOrPlain(f) :
                    /\ AliasOf(f, i) = k
                    /\ \A j \in NamedOrPlain(f) : AliasOf(f, j) = k => j <= i
    IN  TrimQuotes(f.imports[last].path)

\* the rule for the callee fun of a call in file f of package pkg: the empty
\* string when the rule leaves the call unresolved
RuleCallee(f, pkg, fun) ==
    IF fun.kind = "Ident" THEN pkg \o <<".">> \o fun.name
    ELSE IF /\ fun.kind = "SelectorExpr"
            /\ fun.x.kind = "Ident"
            /\ fun.x.name \in AliasKeys(f)
    THEN AliasPath(f, fun.x.name) \o <<".">> \o fun.sel
    ELSE Empty

\* the callee the rule gives a body call
RuleCalleeOf(bc) ==
    RuleCallee(bc.file, FullPkgPath(FullPath(bc.file), bc.target), bc.call.fun)

\* the IDs the rule has the calls of a line of a file recorded against
RuleCalleesAt(rel, line) ==
    { RuleCalleeOf(bc) :
        bc \in {x \in BodyCalls : RelOf(x.file) = rel /\ x.call.line = line} }
    \cap DOMAIN definitions

\* C7: callee resolution is the rule: a bare identifier resolves in the
\* current package even when it is an import alias, a selector on an alias
\* key resolves in the imported package, every other shape is unresolved.
\* So the visitor resolves the calls of its file as the rule does, the call
\* sites of a line are recorded against IDs the rule gives the calls of that
\* line, and after Pass 2 against all of them that are indexed.
C7_CalleeResolution ==
    /\ \A bc \in BodyCalls :
        resolveCalleeID(VisitorOf([target |-> bc.target, file |-> bc.file]),
                        bc.call.fun) = RuleCalleeOf(bc)
    /\ \A bc \in BodyCalls :
        LET rel == RelOf(bc.file)
            got == {s.callee : s \in SitesAt(rel, bc.call.line)}
        IN  /\ got \subseteq RuleCalleesAt(rel, bc.call.line)
            /\ PassesDone => got = RuleCalleesAt(rel, bc.call.line)

\* C7: Pass 2 is over; a call of the bare identifier F in a file that imports
\* a package under the alias F is recorded against F of the current package.
C7_BareIdentifierShadowsAlias ==
    /\ PassesDone
    /\ \E bc \in BodyCalls :
        /\ bc.call.fun.kind = "Ident"
        /\ bc.call.fun.name \in AliasKeys(bc.file)
        /\ \E s \in SitesAt(RelOf(bc.file), bc.call.line) :
            s.callee = FullPkgPath(FullPath(bc.file), bc.target) \o <<".">> \o bc.call.fun.name

\* C7: Pass 2 is over; a call through the alias u of an import is recorded
\* against the imported package's definition.
C7_SelectorThroughAlias ==
    /\ PassesDone
    /\ \E bc \in BodyCalls :
        /\ bc.call.fun.kind = "SelectorExpr"
        /\ bc.call.fun.x.kind = "Ident"
        /\ bc.call.fun.x.name = U
        /\ \E s \in SitesAt(RelOf(bc.file), bc.call.line) :
            s.callee = AliasPath(bc.file, U) \o <<".">> \o bc.call.fun.sel

\* the calls outside every declaration: the initialisers of package-level
\* variables of the parsed files
TopLevelCalls ==
    UNION { { [target |-> pf.target, file |-> pf.file, call |-> c.call] :
                c \in UNION { CallsIn(<<pf.file.decls[k]>>, 0) :
                              k \in {j \in 1..Len(pf.file.decls) :
                                        pf.file.decls[j].kind = "GenDecl"} } } :
            pf \in ParsedFiles }

\* C8: a call outside every function and method declaration produces no
\* CallSite, whether or not its callee resolves to an indexed Definition, and
\* no CallSite is recorded while the caller stack is empty.
C8_NoCallSiteAtDepthZero ==
    /\ \A tc \in TopLevelCalls : SitesAt(RelOf(tc.file), tc.call.line) = {}
    /\ \A s \in AllSites : s.site.callerId # Empty

\* C8: Pass 2 is over; a package-level initialiser calls an indexed
\* Definition, and the same call in a function body was recorded.
C8_TopLevelCallOfIndexed ==
    /\ PassesDone
    /\ \E tc \in TopLevelCalls :
        LET callee == resolveCalleeID(
                        VisitorOf([target |-> tc.target, file |-> tc.file]), tc.call.fun)
        IN  /\ callee \in DOMAIN definitions
            /\ \E s \in AllSites : s.callee = callee /\ s.site.filePath = RelOf(tc.file)

\* the last path segments of the blank imports of file f that no other
\* import of f registers
BlankOnly(f) ==
    { LastSegment(TrimQuotes(f.imports[i].path)) :
        i \in (1..Len(f.imports)) \ NamedOrPlain(f) } \ AliasKeys(f)

\* the files being traversed (one, or none)
Visited == {f \in world.fs : v.active /\ FullPath(f) = v.filePath}

\* the body calls whose callee is a selector on the identifier x
SelectorCallsOn(x) ==
    {bc \in BodyCalls : /\ bc.call.fun.kind = "SelectorExpr"
                        /\ bc.call.fun.x.kind = "Ident"
                        /\ bc.call.fun.x.name = x}

\* C9: a blank import is no key of the alias map of the file being traversed,
\* neither as "_" nor as the last segment of its path (the keys are those of
\* the other imports), and a call through "_" or through the last segment of
\* a path that is only imported blank produces no CallSite.
C9_BlankImportNeverAKey ==
    /\ \A f \in Visited :
        /\ <<"_">> \notin DOMAIN v.importMap
        /\ DOMAIN v.importMap = AliasKeys(f)
        /\ BlankOnly(f) \cap DOMAIN v.importMap = {}
    /\ \A bc \in SelectorCallsOn(<<"_">>) :
        SitesAt(RelOf(bc.file), bc.call.line) = {}
    /\ \A bc \in BodyCalls :
        \A x \in BlankOnly(bc.file) :
            bc \in SelectorCallsOn(x) => SitesAt(RelOf(bc.file), bc.call.line) = {}

\* C9: Pass 2 is over; a file whose only import of m/x is blank called x.F,
\* m/x.F is an indexed Definition, and no CallSite was recorded for the call.
C9_CallThroughBlankImport ==
    /\ PassesDone
    /\ \E bc \in BodyCalls : \E i \in 1..Len(bc.file.imports) :
        LET path == TrimQuotes(bc.file.imports[i].path)
        IN  /\ bc.file.imports[i].name = <<<<"_">>>>
            /\ bc \in SelectorCallsOn(LastSegment(path))
            /\ LastSegment(path) \in BlankOnly(bc.file)
            /\ (path \o <<".">> \o bc.call.fun.sel) \in DOMAIN definitions
            /\ SitesAt(RelOf(bc.file), bc.call.line) = {}

\* C9: Pass 2 is over; a file with a blank import called _.F and no CallSite
\* was recorded for the call.
C9_CallThroughUnderscore ==
    /\ PassesDone
    /\ \E bc \in SelectorCallsOn(<<"_">>) :
        /\ \E i \in 1..Len(bc.file.imports) : bc.file.imports[i].name = <<<<"_">>>>
        /\ SitesAt(RelOf(bc.file), bc.call.line) = {}

\* C10: when the manifest is missing or unparseable the run ends in a fatal
\* error before the passes and writes no output.
C10_BadManifestIsFatal ==
    world.manifest.status \in {"missing", "unparseable"} =>
        /\ pc \in {"start", "fatal"}
        /\ outFile = NoFile

\* C10: a run on an unparseable manifest that ended normally with its output
\* written.
C10_UnparseableManifestRunCompletes ==
    /\ world.manifest.status = "unparseable"
    /\ pc = "done"
    /\ outFile # NoFile

\* C10: on a missing manifest the run is in a fatal error with nothing written.
C10_MissingManifestIsFatal ==
    world.manifest.status = "missing" =>
        /\ pc \in {"start", "fatal"}
        /\ outFile = NoFile

\* the prefixes of the -analyze-deps flag, as main splits it
DepPrefixes == Split(world.analyzeDeps, ",")

\* the prefixes that, trimmed, are string prefixes of the path of req
MatchingPrefixes(req) ==
    {i \in 1..Len(DepPrefixes) : HasPrefix(req.path, TrimSpace(DepPrefixes[i]))}

\* the cache directory of req exists
DirExists(req) ==
    /\ ~EscapePath(req.path).err
    /\ Join(goModCache, EscapePath(req.path).escaped \o <<"@">> \o req.version)
            \in world.cacheDirs

\* the target of each requirement of reqs that matches a prefix and whose
\* directory exists, in the order of reqs
RECURSIVE TargetsOf(_)
TargetsOf(reqs) ==
    IF reqs = <<>> THEN <<>>
    ELSE LET req == Head(reqs)
             dir == Join(goModCache, EscapePath(req.path).escaped \o <<"@">> \o req.version)
         IN  (IF MatchingPrefixes(req) # {} /\ DirExists(req)
              THEN <<AnalysisTarget(dir, req.path)>> ELSE <<>>)
                \o TargetsOf(Tail(reqs))

\* the Dependency Locator has returned its targets to main
DepsLocated == world.analyzeDeps # Empty /\ ti > 0

\* C11: the targets after the main module's are, in manifest order, one per
\* requirement whose path has a trimmed prefix of the list as a string prefix
\* and whose directory <cache-root>/<escaped path>@<version> exists, with
\* that directory as fsRoot and the requirement's path as modulePath.
C11_DependencyTargets ==
    DepsLocated =>
        SubSeq(analysisTargets, 2, Len(analysisTargets))
            = TargetsOf(world.manifest.require)

\* C11: two targets were emitted in manifest order e, d although the prefixes
\* name d first, and two prefixes match d.
C11_TwoTargetsInManifestOrder ==
    /\ DepsLocated
    /\ Len(analysisTargets) = 3
    /\ analysisTargets[2].modulePath = E
    /\ analysisTargets[3].modulePath = D
    /\ TrimSpace(DepPrefixes[1]) = D
    /\ Cardinality(MatchingPrefixes(world.manifest.require[2])) = 2

\* C12: a requirement that matches a prefix but whose cache directory does
\* not exist, or whose path cannot be escaped, gets no target; the matching
\* requirements whose directory exists still get theirs; and the Dependency
\* Locator does not end the run when the manifest parses.
C12_MissingDependencySkipped ==
    /\ DepsLocated =>
        \A k \in 1..Len(world.manifest.require) :
            LET req == world.manifest.require[k]
                emitted == \E j \in 2..Len(analysisTargets) :
                                analysisTargets[j].modulePath = req.path
            IN  MatchingPrefixes(req) # {} => (emitted <=> DirExists(req))
    /\ world.manifest.status = "ok" =>
        ~(pc = "fatal" /\ ti = 0 /\ analysisTargets # <<>>)

\* C12: the passes run with the target of one matching requirement although
\* the path of another matching requirement cannot be escaped.
C12_SkippedUnescapable ==
    /\ pc = "pass1"
    /\ Len(analysisTargets) = 2
    /\ \E k \in 1..Len(world.manifest.require) :
        /\ MatchingPrefixes(world.manifest.require[k]) # {}
        /\ EscapePath(world.manifest.require[k].path).err

\* C12: the run completed although the cache directory of a matching
\* requirement does not exist.
C12_SkippedMissingDirectory ==
    /\ pc = "done"
    /\ DepsLocated
    /\ \E k \in 1..Len(world.manifest.require) :
        LET req == world.manifest.require[k]
        IN  /\ MatchingPrefixes(req) # {}
            /\ ~EscapePath(req.path).err
            /\ ~DirExists(req)
    /\ Len(analysisTargets) = 2

\* the paths of the trees of the targets: files and the directories above them
TreePaths ==
    UNION { { [isDir |-> e.isDir, path |-> EntryPath(t.fsRoot, e)] :
                e \in Entries(world, t.fsRoot) } : t \in Range(analysisTargets) }

\* the rule of the Source Walker for a path of a tree
WalkerRule(tp) ==
    /\ ~tp.isDir
    /\ HasSuffix(tp.path, <<".", "g", "o">>)
    /\ ~HasSuffix(tp.path, <<"_", "t", "e", "s", "t", ".", "g", "o">>)
    /\ \A i \in 1..Len(skipPatterns) :
        skipPatterns[i] = Empty \/ ~Contains(tp.path, skipPatterns[i])

\* the walks of pass are over
WalksOver(pass) == IF pass = "pass1" THEN Pass1Done ELSE PassesDone

\* C13: a path is handed to the processor of a pass only if it is a
\* non-directory ending in .go, not in _test.go, with no non-empty skip
\* substring in its traversal path; and once the walks of the pass are over
\* every such path of the trees has been handed to it. (So nothing below a
\* directory that matches is handed on, a match on a file leaves the other
\* files alone, and empty substrings match nothing.)
C13_WalkerHandsExactlySources ==
    /\ \A h \in handed :
        \E tp \in TreePaths : tp.path = h.path /\ WalkerRule(tp)
    /\ \A pass \in {"pass1", "pass2"} :
        WalksOver(pass) =>
            \A tp \in TreePaths :
                WalkerRule(tp) => [pass |-> pass, path |-> tp.path] \in handed

\* C13: both walks are over; a file was handed on while a skip substring
\* matched another file, and an empty substring was in the list.
C13_FileSkippedSiblingHanded ==
    /\ PassesDone
    /\ \E tp1, tp2 \in TreePaths :
        /\ [pass |-> "pass2", path |-> tp1.path] \in handed
        /\ ~tp2.isDir
        /\ HasSuffix(tp2.path, <<".", "g", "o">>)
        /\ ~HasSuffix(tp2.path, <<"_", "t", "e", "s", "t", ".", "g", "o">>)
        /\ \E i \in 1..Len(skipPatterns) :
            skipPatterns[i] # Empty /\ Contains(tp2.path, skipPatterns[i])
    /\ \E i \in 1..Len(skipPatterns) : skipPatterns[i] = Empty

\* C13: both walks are over; a file below a directory whose name ends in .go
\* was handed on, and the directory was not.
C13_DirectoryNamedLikeSource ==
    /\ PassesDone
    /\ \E d, f \in TreePaths :
        /\ d.isDir /\ HasSuffix(d.path, <<".", "g", "o">>)
        /\ HasPrefix(f.path, d.path \o <<"/">>)
        /\ [pass |-> "pass1", path |-> f.path] \in handed
        /\ [pass |-> "pass1", path |-> d.path] \notin handed

\* the files of the targets that do not parse
Unparseable ==
    {f \in world.fs : ~f.parseOK /\ \E t \in Range(analysisTargets) : t.fsRoot = f.root}

\* what holds of the indexes whatever files fail to parse: every Definition
\* and every CallSite comes from a file that parsed, and once a pass is over
\* the declarations and the resolved calls of the files that parsed are there
ParsedFilesOnly ==
    /\ \A id \in DOMAIN definitions :
        \E d \in IndexedDecls : d.id = id
    /\ \A s \in AllSites :
        \E bc \in BodyCalls :
            RelOf(bc.file) = s.site.filePath /\ bc.call.line = s.site.line
    /\ Pass1Done => \A d \in IndexedDecls : d.id \in DOMAIN definitions
    /\ PassesDone =>
        \A bc \in BodyCalls :
            RuleCalleeOf(bc) \in DOMAIN definitions =>
                \E s \in SitesAt(RelOf(bc.file), bc.call.line) :
                    s.callee = RuleCalleeOf(bc)

\* the step in which a pass is handed a file that does not parse changes no
\* index, leaves the output alone and does not end the run
ParseFailureStep ==
    \A f \in Unparseable :
        (\E h \in handed' \ handed : h.path = FullPath(f)) =>
            /\ definitions' = definitions
            /\ mappings' = mappings
            /\ outFile' = outFile
            /\ pc' \in {"pass1", "pass2", "serialize"}

\* C14: a parse failure is not fatal in either pass: the file adds no
\* Definition and no CallSite, the step that meets it goes on with the walk,
\* and the other admitted files are processed in full.
C14_ParseFailureNonFatal ==
    []ParsedFilesOnly /\ [][ParseFailureStep]_vars

\* C14: a run that ended normally with its output written, after both passes
\* were handed a file that does not parse and that declares and calls F.
C14_RunCompletesDespiteParseFailure ==
    /\ pc = "done"
    /\ outFile.json = "array"
    /\ \E f \in Unparseable :
        /\ [pass |-> "pass1", path |-> FullPath(f)] \in handed
        /\ [pass |-> "pass2", path |-> FullPath(f)] \in handed
        /\ f.decls[1].body # <<>>
        /\ \A s \in AllSites : s.site.filePath # RelOf(f)

\* the text of a Definition's ID after its package and the dot
Suffix(d) == SubSeq(d.id, Len(d.package) + 2, Len(d.id))

\* C15: the ID of every emitted Definition is its package, a dot, and a
\* suffix of one or two dot-separated components, the last one the name.
C15_PrefixProperty ==
    \A m \in outFile.elems :
        LET d == m.definition
            parts == Split(Suffix(d), ".")
        IN  /\ HasPrefix(d.id, d.package \o <<".">>)
            /\ Len(parts) \in {1, 2}
            /\ parts[Len(parts)] = d.name

\* C15: an emitted Definition whose suffix has more than two components.
C15_DumpInMethodID ==
    /\ pc = "done"
    /\ \E m \in outFile.elems : Len(Split(Suffix(m.definition), ".")) > 2

\* C16: the output file, once written, is a JSON array.
C16_OutputIsArray ==
    outFile # NoFile => outFile.json = "array"

\* C16: a run that ended normally with null as its output.
C16_NullOutput ==
    /\ pc = "done"
    /\ outFile.json = "null"

\* the HTTP adapter has been started
Started == pc = "serving"

\* what holds when the adapter is started: the flag is set, both passes
\* handed every source file of every target on, no traversal is open, and the
\* output file holds the serialized mappings
StartedAfterOutput ==
    Started =>
        /\ world.serveAddr # Empty
        /\ ~v.active /\ todo = {}
        /\ \A tp \in TreePaths : \A pass \in {"pass1", "pass2"} :
            WalkerRule(tp) => [pass |-> pass, path |-> tp.path] \in handed
        /\ outFile # NoFile
        /\ outFile = MarshalIndent(FinalMappings(world.rev, mappings))

\* the adapter is started from the state in which the file was written, and a
\* run that failed stays failed
StartStep ==
    /\ Started' /\ ~Started => pc = "written" /\ outFile' = outFile
    /\ pc = "fatal" => pc' = "fatal"

\* C17: the HTTP adapter is started only when the serve address is set, after
\* both passes and the successful write of the output file; a run whose
\* serialization or write failed never starts it.
C17_ServeAfterOutput ==
    []StartedAfterOutput /\ [][StartStep]_vars

\* C17: the adapter is serving a non-empty output.
C17_Serving ==
    /\ Started
    /\ outFile.json = "array"
    /\ Cardinality({h \in handed : h.pass = "pass2"}) = 2

\* a is b with elements appended
IsPrefix(a, b) == Len(a) <= Len(b) /\ SubSeq(b, 1, Len(a)) = a

\* Pass 2 has been handed something
Pass2Begun == \E h \in handed : h.pass = "pass2"

\* Pass 2 runs only when Pass 1 has been handed every source file of every
\* target
Pass1Complete ==
    pc = "pass2" \/ Pass2Begun =>
        \A tp \in TreePaths :
            WalkerRule(tp) => [pass |-> "pass1", path |-> tp.path] \in handed

\* a step of Pass 2 leaves the definition index, the keys of the mapping index
\* and the Definition of every Mapping alone, and only appends call sites
Pass2Step ==
    pc = "pass2" =>
        /\ definitions' = definitions
        /\ DOMAIN mappings' = DOMAIN mappings
        /\ \A id \in DOMAIN mappings :
            /\ mappings'[id].definition = mappings[id].definition
            /\ IsPrefix(mappings[id].callSites, mappings'[id].callSites)

\* a step of Pass 1 appends no call site, and no step outside the passes
\* changes an index
OtherSteps ==
    /\ pc = "pass1" => \A id \in DOMAIN mappings' : mappings'[id].callSites = <<>>
    /\ pc \notin {"pass1", "pass2"} =>
            definitions' = definitions /\ mappings' = mappings

\* C18: Pass 2 starts only after Pass 1 has finished for every file of every
\* target; during Pass 2 the definition index, the key set of the mapping
\* index and the Definition of every Mapping do not change, and call sites
\* are only appended to Mappings that exist.
C18_IndexFrozenInPass2 ==
    []Pass1Complete /\ [][Pass2Step /\ OtherSteps]_vars

\* C18: Pass 2 has appended a second call site to a Mapping.
C18_CallSitesAppended ==
    /\ pc = "pass2"
    /\ \E id \in DOMAIN mappings : Len(mappings[id].callSites) = 2
    /\ Cardinality(DOMAIN definitions) >= 2

\* the declarations of file f that Pass 1 indexes, by their place in the file
Indexable(f) ==
    {k \in 1..Len(f.decls) :
        /\ f.decls[k].kind = "FuncDecl"
        /\ f.decls[k].recv = <<>> \/ ~ReceiverPrintFails(world.rev, f.decls[k])}

\* the ID of declaration k of file f of target t
IDOf(t, f, k) ==
    SynthID(world.rev, FullPkgPath(FullPath(f), t), f.decls[k], FullPath(f))

\* the Definition of declaration k of file f of target t
DefinitionOf(t, f, k) ==
    Definition(IDOf(t, f, k), f.decls[k].name, FullPkgPath(FullPath(f), t),
               RelOf(f), f.decls[k].line)

\* the two indexes hold one record per ID, the same Definition in both, and
\* no Mapping has a call site before Pass 2 has been handed a file
OneRecordPerID ==
    /\ DOMAIN mappings = DOMAIN definitions
    /\ \A id \in DOMAIN definitions :
        /\ mappings[id].definition = definitions[id]
        /\ definitions[id].id = id
        /\ (pc = "pass1" \/ (pc = "pass2" /\ ~Pass2Begun)) => mappings[id].callSites = <<>>

\* the step in which Pass 1 processes file f: every ID that f declares is
\* afterwards that of the last declaration of f with that ID, whatever was
\* there before, and the other IDs keep their Definition
LastWriterStep ==
    \A f \in {g \in world.fs : g.parseOK} :
        ([pass |-> "pass1", path |-> FullPath(f)] \in handed' \ handed) =>
            LET t == analysisTargets[ti]
            IN  /\ \A k \in Indexable(f) :
                    LET last == CHOOSE j \in Indexable(f) :
                                    /\ IDOf(t, f, j) = IDOf(t, f, k)
                                    /\ \A i \in Indexable(f) :
                                        IDOf(t, f, i) = IDOf(t, f, k) => i <= j
                    IN  /\ IDOf(t, f, k) \in DOMAIN definitions'
                        /\ definitions'[IDOf(t, f, k)] = DefinitionOf(t, f, last)
                        /\ mappings'[IDOf(t, f, k)] = Mapping(DefinitionOf(t, f, last), <<>>)
                /\ \A id \in DOMAIN definitions :
                    (\A k \in Indexable(f) : IDOf(t, f, k) # id) =>
                        definitions'[id] = definitions[id]

\* C19: when two declarations synthesize the same ID, the definition index
\* and the Mapping hold the Definition of the one processed last and nothing
\* of the earlier one, and the Mapping has no call sites when Pass 2 starts.
C19_LastWriterWins ==
    []OneRecordPerID /\ [][LastWriterStep]_vars

\* C19: Pass 1 is over; two files declared the same ID, and the index holds
\* the Definition of one of them under it.
C19_Superseded ==
    /\ pc = "pass2" /\ ~Pass2Begun
    /\ \E f1, f2 \in world.fs :
        /\ f1 # f2
        /\ [pass |-> "pass1", path |-> FullPath(f1)] \in handed
        /\ [pass |-> "pass1", path |-> FullPath(f2)] \in handed
        /\ f1.parseOK /\ f2.parseOK
        /\ \E k1 \in Indexable(f1), k2 \in Indexable(f2) :
            LET t == analysisTargets[1]
            IN  /\ IDOf(t, f1, k1) = IDOf(t, f2, k2)
                /\ definitions[IDOf(t, f1, k1)] = DefinitionOf(t, f1, k1)
                /\ DefinitionOf(t, f1, k1) # DefinitionOf(t, f2, k2)

\* the pops the traversal still owes: the declarations it is inside of
PendingPops == Cardinality({i \in 1..Len(v.agenda) : v.agenda[i].kind = "pop"})

\* the depth of the caller stack is 0 outside the traversal of a file, at its
\* start and at its end, and during it is the number of declarations the
\* traversal is inside of (0 or 1)
DepthIsDeclarations ==
    /\ ~v.active => v.callerIDStack = <<>>
    /\ v.active =>
        /\ Len(v.callerIDStack) = PendingPops
        /\ PendingPops \in {0, 1}
        /\ Head(v.agenda).kind = "File" => v.callerIDStack = <<>>
        /\ LET r == Visit(world.rev, v, mappings)
           IN  r.v.agenda = <<>> => r.v.callerIDStack = <<>>

\* a step of the traversal pushes once on a declaration, pops once on leaving
\* it, and leaves the depth alone otherwise
PushPopStep ==
    v.active /\ v'.active =>
        Len(v'.callerIDStack) = Len(v.callerIDStack)
            + (CASE Head(v.agenda).kind = "FuncDecl" -> 1
                 [] Head(v.agenda).kind = "pop" -> -1
                 [] OTHER -> 0)

\* C20: the caller stack is pushed once on entering a declaration and popped
\* once on leaving it, with or without a body: its depth is 0 before and
\* after the traversal of a file and positive exactly inside a declaration.
C20_StackBalanced ==
    []DepthIsDeclarations /\ [][PushPopStep]_vars

\* C20: the traversal has entered a declaration without a body and is about
\* to pop its caller ID.
C20_BodilessDeclarationEntered ==
    /\ v.active
    /\ Len(v.callerIDStack) = 1
    /\ Head(v.agenda).kind = "pop"
    /\ \E d \in DeclsOfVisited :
        ~d.hasBody /\ v.callerIDStack[1] = CallerID(world.rev, v, d)

\* the import path an import entry denotes: the value of its string literal,
\* written between double quotes or between back quotes
ImportPathOf(imp) == SubSeq(imp.path, 2, Len(imp.path) - 1)

\* the key the rule gives import i of file f
KeyOf(f, i) ==
    IF f.imports[i].name # <<>> THEN f.imports[i].name[1]
    ELSE LastSegment(ImportPathOf(f.imports[i]))

\* the alias map the rule gives file f: one key per non-blank import, mapped
\* to the path of the last import of that key
AliasMapOf(f) ==
    [k \in {KeyOf(f, i) : i \in NamedOrPlain(f)} |->
        LET last == CHOOSE i \in NamedOrPlain(f) :
                        /\ KeyOf(f, i) = k
                        /\ \A j \in NamedOrPlain(f) : KeyOf(f, j) = k => j <= i
        IN  ImportPathOf(f.imports[last])]

\* C21: the alias map of the file being traversed has, for every non-blank
\* import of that file, the key alias-or-last-segment mapped to the unquoted
\* import path, the later import winning a collision, and nothing else (so
\* nothing of another file).
C21_AliasMapPerFile ==
    \A f \in Visited : v.importMap = AliasMapOf(f)

\* C21: Pass 2 is over; a file that imports m/x with a raw string literal
\* called x.F, m/x.F is indexed, and no CallSite was recorded for the call:
\* the key and the path in the alias map kept the back quotes.
C21_RawLiteralImport ==
    /\ PassesDone
    /\ \E bc \in SelectorCallsOn(X) :
        /\ bc.file.imports = <<RawImportSpec(<<>>, PathX)>>
        /\ AliasMapOf(bc.file) = [k \in {X} |-> PathX]
        /\ BuildImportMap(EmptyMap, bc.file.imports)
                = [k \in {<<"x", BackQuote>>} |-> <<BackQuote>> \o PathX \o <<BackQuote>>]
        /\ (PathX \o <<".">> \o bc.call.fun.sel) \in DOMAIN definitions
        /\ SitesAt(RelOf(bc.file), bc.call.line) = {}

\* the parsed method declarations whose receiver type does not render
Unrendered ==
    {pd \in ParsedDecls : pd.decl.recv # <<>> /\ ReceiverPrintFails(world.rev, pd.decl)}

\* the Definitions of index defs that were made from declaration pd
MadeFrom(defs, pd) ==
    {id \in DOMAIN defs :
        /\ defs[id].package = FullPkgPath(FullPath(pd.file), pd.target)
        /\ defs[id].filePath = RelOf(pd.file)
        /\ defs[id].line = pd.decl.line
        /\ defs[id].name = pd.decl.name}

\* the body calls of declaration pd
CallsOf(pd) ==
    {bc \in BodyCalls : bc.target = pd.target /\ bc.file = pd.file /\ bc.decl = pd.decl}

PlaceholderText == <<"<", "?", ">">>

CallAtHand ==
    {n \in {Head(v.agenda)} : n.kind = "CallExpr" /\ Len(v.callerIDStack) > 0}

\* C24: the definition index and the mapping index have the same keys, no
\* key is empty, and each Mapping carries the Definition indexed under its
\* key; so a callee is found in one index exactly when it is in the other,
\* and a call whose callee is unresolved (the empty ID) changes nothing.
C24_IndexesAgree ==
    /\ DOMAIN definitions = DOMAIN mappings
    /\ \A id \in DOMAIN mappings :
        id # Empty /\ mappings[id].definition = definitions[id]
    /\ v.active =>
        \A n \in CallAtHand :
            LET calleeID == resolveCalleeID(v, n.fun)
            IN  /\ calleeID \in DOMAIN mappings <=> calleeID \in DOMAIN definitions
                /\ calleeID = Empty => VisitCall(v, mappings, n) = mappings
                /\ calleeID \notin DOMAIN definitions => VisitCall(v, mappings, n) = mappings

\* C24: inside a declaration the traversal is about to visit a call whose
\* callee is unresolved, with two IDs in the indexes.
C24_UnresolvedCallAtHand ==
    /\ pc = "pass2" /\ v.active
    /\ \E n \in CallAtHand : resolveCalleeID(v, n.fun) = Empty
    /\ Cardinality(DOMAIN mappings) >= 2

\* C24: Pass 1 is over with an ID that two files declared.
C24_RedeclaredID ==
    /\ pc = "pass2"
    /\ \E f1, f2 \in world.fs :
        /\ f1 # f2 /\ f1.parseOK /\ f2.parseOK
        /\ \E k1 \in Indexable(f1), k2 \in Indexable(f2) :
            LET t == analysisTargets[1]
            IN  /\ IDOf(t, f1, k1) = IDOf(t, f2, k2)
                /\ IDOf(t, f1, k1) \in DOMAIN mappings
                /\ mappings[IDOf(t, f1, k1)].definition = DefinitionOf(t, f2, k2)
                /\ mappings[IDOf(t, f1, k1)].callSites # <<>>

\* the IDs whose indexed Definition was made from a method declaration
MethodIDs ==
    UNION { MadeFrom(definitions, pd) : pd \in {x \in ParsedDecls : x.decl.recv # <<>>} }

\* the Mappings of the output whose Definition is that of a method
MethodMappings ==
    {m \in outFile.elems :
        \E id \in MethodIDs : definitions[id] = m.definition}

\* C25: the Mapping of a Definition declared with a receiver has no call
\* sites, and no such Mapping is in the output.
C25_MethodsNeverCallees ==
    /\ \A id \in MethodIDs : mappings[id].callSites = <<>>
    /\ MethodMappings = {}

\* C25: the output of the revision that filters empty Mappings holds the
\* Mapping of a method of the dependency d, with the call site of the call
\* F() in the main module d.T.
C25_MethodMappingEmitted ==
    /\ pc = "done"
    /\ world.rev = "skip"
    /\ \E m \in MethodMappings :
        /\ m.definition.package = D
        /\ m.definition.id = <<"d", ".", "T", ".", "F">>
        /\ \E i \in 1..Len(m.callSites) :
            m.callSites[i].callerId = ModDT \o <<".">> \o F

\* the call expressions below a list of nodes, one entry per expression, in
\* the order of the walk
RECURSIVE CallList(_)
CallList(nodes) ==
    IF nodes = <<>> THEN <<>>
    ELSE LET n == Head(nodes)
             here ==
                CASE n.kind = "CallExpr" -> <<n>> \o CallList(<<n.fun>> \o n.args)
                  [] n.kind = "FuncLit" -> CallList(n.body)
                  [] n.kind = "SelectorExpr" -> CallList(<<n.x>>)
                  [] n.kind = "ParenExpr" -> CallList(<<n.x>>)
                  [] OTHER -> <<>>
         IN  here \o CallList(Tail(nodes))

\* the call expressions in the bodies of the declarations of the parsed
\* files: expression i of declaration k of file pf
Occurrences ==
    UNION { UNION { {[pf |-> pf, k |-> k, i |-> i] :
                        i \in 1..Len(CallList(pf.file.decls[k].body))} :
                    k \in {j \in 1..Len(pf.file.decls) :
                            /\ pf.file.decls[j].kind = "FuncDecl"
                            /\ pf.file.decls[j].hasBody} } :
            pf \in ParsedFiles }

CallOf(o) == CallList(o.pf.file.decls[o.k].body)[o.i]

CalleeOf(o) == resolveCalleeID(VisitorOf(o.pf), CallOf(o).fun)

\* the CallSite the call of occurrence o is recorded as
SiteOf(o) ==
    CallSite(RelOf(o.pf.file), CallOf(o).line,
             CallerID(world.rev, VisitorOf(o.pf), o.pf.file.decls[o.k]))

\* the occurrences whose callee resolves to an indexed ID
Resolved == {o \in Occurrences : CalleeOf(o) \in DOMAIN definitions}

\* the CallSite records of the mapping index, one entry per record
Records ==
    UNION { {[id |-> id, i |-> i] : i \in 1..Len(mappings[id].callSites)} :
            id \in DOMAIN mappings }

\* C26: once Pass 2 is over there is one CallSite record per call expression
\* in a declaration body whose callee resolves to an indexed ID: the number
\* of records of each CallSite under each ID is the number of such
\* expressions (n calls from one caller on one line give n equal records),
\* and the totals agree.
C26_OneCallSitePerCall ==
    PassesDone =>
        /\ Cardinality(Records) = Cardinality(Resolved)
        /\ \A id \in DOMAIN mappings :
            \A site \in Range(mappings[id].callSites)
                            \cup {SiteOf(o) : o \in {x \in Resolved : CalleeOf(x) = id}} :
                Cardinality({r \in Records : r.id = id /\ mappings[id].callSites[r.i] = site})
                    = Cardinality({o \in Resolved : CalleeOf(o) = id /\ SiteOf(o) = site})

\* C26: Pass 2 is over and a Mapping holds MaxCalls equal CallSite records.
C26_EqualRecords ==
    /\ PassesDone
    /\ \E id \in DOMAIN mappings :
        /\ Len(mappings[id].callSites) = MaxCalls
        /\ \A i \in 1..MaxCalls : mappings[id].callSites[i] = mappings[id].callSites[1]

\* the identifier a callee starts with, if it is a bare identifier or a
\* selector on one
LeadingIdent(fun) ==
    IF fun.kind = "Ident" THEN <<fun>>
    ELSE IF fun.kind = "SelectorExpr" /\ fun.x.kind = "Ident" THEN <<fun.x>>
    ELSE <<>>

\* the callee starts with an identifier declared inside the function
Shadowed(fun) ==
    LeadingIdent(fun) # <<>> /\ "obj" \in DOMAIN LeadingIdent(fun)[1]

\* the callee with its leading identifier taken as an unresolved name
Unscoped(fun) ==
    IF fun.kind = "Ident" THEN Ident(fun.name)
    ELSE IF fun.kind = "SelectorExpr" /\ fun.x.kind = "Ident"
    THEN SelectorExpr(Ident(fun.x.name), fun.sel)
    ELSE fun

\* C27: resolution does not look at what an identifier denotes: a call whose
\* callee starts with a local variable, parameter or local type resolves as
\* the same text would at package level, and once Pass 2 is over it is
\* recorded against currentPkg.f or importPath.f whenever that ID is indexed.
C27_ScopeIgnored ==
    \A o \in {x \in Occurrences : Shadowed(CallOf(x).fun)} :
        LET pkg == FullPkgPath(FullPath(o.pf.file), o.pf.target)
            rule == RuleCallee(o.pf.file, pkg, CallOf(o).fun)
        IN  /\ resolveCalleeID(VisitorOf(o.pf), CallOf(o).fun)
                    = resolveCalleeID(VisitorOf(o.pf), Unscoped(CallOf(o).fun))
            /\ CalleeOf(o) = rule
            /\ PassesDone /\ rule \in DOMAIN definitions =>
                \E r \in Records :
                    r.id = rule /\ mappings[r.id].callSites[r.i] = SiteOf(o)

\* C27: Pass 2 is over; a call F() where F is a local variable is recorded
\* against the package-level F.
C27_LocalVariableCallRecorded ==
    /\ PassesDone
    /\ \E o \in Occurrences :
        /\ CallOf(o).fun = LocalIdent(F, "var")
        /\ \E r \in Records :
            /\ r.id = Mod \o <<".">> \o F
            /\ mappings[r.id].callSites[r.i] = SiteOf(o)

\* C27: Pass 2 is over; a call x.F() where x is a local variable that
\* shadows the import of m/x is recorded against m/x.F.
C27_ShadowedAliasCallRecorded ==
    /\ PassesDone
    /\ \E o \in Occurrences :
        /\ CallOf(o).fun = SelectorExpr(LocalIdent(X, "var"), F)
        /\ \E r \in Records :
            /\ r.id = PathX \o <<".">> \o F
            /\ mappings[r.id].callSites[r.i] = SiteOf(o)

\* some entry of the -analyze-deps list is empty once trimmed
EmptyPrefixGiven ==
    \E i \in 1..Len(DepPrefixes) : TrimSpace(DepPrefixes[i]) = Empty

\* the targets of the requirements of reqs whose cache directory exists
RECURSIVE ExistingOf(_)
ExistingOf(reqs) ==
    IF reqs = <<>> THEN <<>>
    ELSE (IF DirExists(Head(reqs))
          THEN <<AnalysisTarget(
                    Join(goModCache, EscapePath(Head(reqs).path).escaped
                                        \o <<"@">> \o Head(reqs).version),
                    Head(reqs).path)>>
          ELSE <<>>) \o ExistingOf(Tail(reqs))

\* C28: when an entry of the -analyze-deps list is empty once trimmed, every
\* requirement of the manifest whose cache directory exists is a target,
\* whatever the other entries are; an empty skip substring, in contrast,
\* matches no path.
C28_EmptyPrefixMatchesAll ==
    /\ DepsLocated /\ EmptyPrefixGiven =>
        SubSeq(analysisTargets, 2, Len(analysisTargets))
            = ExistingOf(world.manifest.require)
    /\ \A tp \in TreePaths : ~SkipMatches(<<Empty>>, tp.path)

\* C28: the run completed with both requirements as targets although the
\* only non-empty prefix of the list matches neither.
C28_AllDependenciesAnalysed ==
    /\ pc = "done"
    /\ DepsLocated /\ EmptyPrefixGiven
    /\ Len(analysisTargets) = 3
    /\ \A k \in 1..Len(world.manifest.require) :
        \A i \in 1..Len(DepPrefixes) :
            TrimSpace(DepPrefixes[i]) # Empty =>
                ~HasPrefix(world.manifest.require[k].path, TrimSpace(DepPrefixes[i]))
    /\ \E id \in DOMAIN definitions : definitions[id].package = E

\* C28: the list is a single blank and a requirement became a target.
C28_BlankList ==
    /\ world.analyzeDeps = <<" ">>
    /\ Len(analysisTargets) >= 2

\* the non-empty entries of the -skip flag, as given
VerbatimPatterns ==
    IF world.rev = "skip" THEN Range(Split(world.skipRaw, ",")) \ {Empty} ELSE {}

\* the targets whose root holds a skip substring
PrunedTargets ==
    {t \in Range(analysisTargets) :
        \E p \in VerbatimPatterns : Contains(t.fsRoot, p)}

\* the files of target t
FilesOf(t) == {f \in world.fs : f.root = t.fsRoot}

\* f is a source file by its name
SourceName(f) ==
    /\ HasSuffix(f.name, <<".", "g", "o">>)
    /\ ~HasSuffix(f.name, <<"_", "t", "e", "s", "t", ".", "g", "o">>)

\* C29: a target whose root holds a skip substring, taken as given, has no
\* path handed to either pass, no Definition in the index and no CallSite
\* from any of its files; and once both walks are over, a source file whose
\* path from the root on holds none of the substrings as given has been
\* handed to both passes.
C29_RootMatchPrunesTarget ==
    /\ \A t \in PrunedTargets :
        /\ \A h \in handed : ~HasPrefix(h.path, t.fsRoot \o <<"/">>)
        /\ \A f \in FilesOf(t) : \A k \in Indexable(f) :
            /\ \A id \in DOMAIN definitions : definitions[id] # DefinitionOf(t, f, k)
            /\ \A s \in AllSites :
                ~(s.site.filePath = RelOf(f) /\ s.site.callerId = IDOf(t, f, k))
    /\ PassesDone =>
        \A t \in Range(analysisTargets) : \A f \in FilesOf(t) :
            (SourceName(f) /\ \A p \in VerbatimPatterns : ~Contains(FullPath(f), p))
                => \A pass \in {"pass1", "pass2"} :
                    [pass |-> pass, path |-> FullPath(f)] \in handed

\* C29: the run completed with the dependency pruned by a substring of its
\* cache directory that no relative path holds, and the main module analysed.
C29_DependencyPruned ==
    /\ pc = "done"
    /\ Len(analysisTargets) = 2
    /\ PrunedTargets = {analysisTargets[2]}
    /\ \A f \in FilesOf(analysisTargets[2]) :
        \A p \in VerbatimPatterns : ~Contains(RelOf(f), p)
    /\ \E f \in FilesOf(analysisTargets[2]) : SourceName(f) /\ f.parseOK
    /\ \E m \in outFile.elems : m.definition.package = Mod

\* C29: the run completed with the main module pruned and nothing indexed.
C29_MainModulePruned ==
    /\ pc = "done"
    /\ analysisTargets # <<>>
    /\ analysisTargets[1] \in PrunedTargets
    /\ \A f \in FilesOf(analysisTargets[1]) :
        \A p \in VerbatimPatterns : ~Contains(RelOf(f), p)
    /\ definitions = EmptyMap

\* C29: a substring given with a blank before it pruned nothing, although
\* without the blank it occurs in the root.
C29_BlankNotTrimmed ==
    /\ pc = "done"
    /\ \E p \in VerbatimPatterns :
        /\ TrimSpace(p) # p
        /\ \E t \in Range(analysisTargets) :
            /\ Contains(t.fsRoot, TrimSpace(p))
            /\ \E f \in FilesOf(t) : [pass |-> "pass2", path |-> FullPath(f)] \in handed

\* the run ended during a walk: entries of the tree of target ti were left
AbortedInWalk == pc = "fatal" /\ ti >= 1 /\ todo # {}

\* every source path of every target has been handed to both passes
AllTargetsWalked ==
    \A tp \in TreePaths : \A pass \in {"pass1", "pass2"} :
        WalkerRule(tp) => [pass |-> pass, path |-> tp.path] \in handed

\* a run that ended during a walk wrote no output file, and an output file
\* is there only when both passes went over all targets
OutputOnlyAfterPasses ==
    /\ AbortedInWalk => outFile = NoFile
    /\ pc \in {"pass1", "pass2"} => outFile = NoFile
    /\ outFile # NoFile =>
        /\ AllTargetsWalked
        /\ ~v.active /\ todo = {} /\ ti = Len(analysisTargets)

\* a pass ends in failure without touching the indexes or the output file,
\* and nothing happens after a failure: no file is handed on, no target is
\* begun, nothing is written, no server is started
AbortStep ==
    /\ (pc \in {"pass1", "pass2"} /\ pc' = "fatal") =>
            UNCHANGED <<definitions, mappings, handed, outFile, ti, todo, v>>
    /\ pc # "fatal"

\* C30: an error of the file system during the walk of a target, in either
\* pass, ends the run at once: nothing is processed after it, no output file
\* is written and the server is not started; the output file is written only
\* after both passes went over all targets.
C30_WalkErrorAborts ==
    []OutputOnlyAfterPasses /\ [][AbortStep]_vars

\* C30: the run ended in Pass 2 on the second target with the serve address
\* set: files were handed on before, the dependency's file was not handed to
\* Pass 2, and there is no output file.
C30_AbortedInSecondPass ==
    /\ AbortedInWalk
    /\ world.serveAddr # Empty
    /\ Len(analysisTargets) = 2 /\ ti = 2
    /\ \E h \in handed : h.pass = "pass2"
    /\ ~AllTargetsWalked
    /\ outFile = NoFile

\* C30: the run ended in Pass 1 on the root of the main module.
C30_AbortedOnRoot ==
    /\ AbortedInWalk
    /\ ti = 1 /\ RootEntry \in todo
    /\ handed = {}

(***************************************************************************)
(* The package-loader revision (src/unnamed/part_001): packages.Load finds *)
(* and parses the files; both passes loop over the loaded packages.        *)
(*                                                                         *)
(*   Package  [pkgPath, module, syntax]   module = <<>> (none) or <<m>>    *)
(*            with m = [main, path, dir]; syntax the parsed files          *)
(*   file     [name, imports, decls]      name is the file's path          *)
(***************************************************************************)
Package(pkgPath, module, syntax) ==
    [pkgPath |-> pkgPath, module |-> module, syntax |-> syntax]

Module(main, path, dir) == <<[main |-> main, path |-> path, dir |-> dir]>>

\* the parsed file the loader hands over for source file f
LoadedFile(f) == [name |-> FullPath(f), imports |-> f.imports, decls |-> f.decls]

\* main's loop over strings.Split(*internalModules, ","): the trimmed prefixes
internalPrefixes(internalModules) ==
    IF internalModules = Empty THEN <<>>
    ELSE LET parts == Split(internalModules, ",")
         IN  [i \in 1..Len(parts) |-> TrimSpace(parts[i])]

isInternalModule(pkgPath, modulePath, prefixes) ==
    \E i \in 1..Len(prefixes) : HasPrefix(pkgPath, prefixes[i])

\* the condition of both loops of main over pkgs
Analysed(pkg, prefixes) ==
    /\ pkg.module # <<>>
    /\ pkg.module[1].main \/ isInternalModule(pkg.pkgPath, pkg.module[1].path, prefixes)

\* main's search for the root module's directory: the empty string when no
\* package belongs to the main module
RECURSIVE rootDirOf(_)
rootDirOf(pkgs) ==
    IF pkgs = <<>> THEN Empty
    ELSE IF Head(pkgs).module # <<>> /\ Head(pkgs).module[1].main
    THEN Head(pkgs).module[1].dir
    ELSE rootDirOf(Tail(pkgs))

\* filepath.Rel(rootDir, filePath) for a root one directory deep: a file
\* outside the root is reached through ".."
LoaderRel(rootDir, filePath) ==
    IF HasPrefix(filePath, rootDir \o <<"/">>) THEN Rel(rootDir, filePath)
    ELSE <<".", ".", "/">> \o filePath

\* filepath.Base of an import path without a trailing slash
Base(path) ==
    IF path = Empty THEN <<".">>
    ELSE SubSeq(path, LastIndexOf(path, "/", Len(path)) + 1, Len(path))

\* the ID both passes of this revision synthesize for a declaration
LoaderID(pkgPath, fn, filePath) ==
    IF Len(fn.recv) > 0
    THEN pkgPath \o <<".">> \o AstFprint(fn.recv[1].type, filePath, fn.line)
            \o <<".">> \o fn.name
    ELSE pkgPath \o <<".">> \o fn.name

\* findDefinitions' ast.Inspect callback over the declarations of one file
RECURSIVE LoaderInspectDecls(_, _, _, _, _)
LoaderInspectDecls(idx, decls, pkgPath, filePath, rootDir) ==
    IF decls = <<>> THEN idx
    ELSE LET fn == Head(decls)
             id == LoaderID(pkgPath, fn, filePath)
             def == Definition(id, fn.name, pkgPath,
                               ToSlash(LoaderRel(rootDir, filePath)), fn.line)
             next == IF fn.kind # "FuncDecl" THEN idx
                     ELSE [definitions |-> Put(idx.definitions, id, def),
                           mappings |-> Put(idx.mappings, id, Mapping(def, <<>>))]
         IN  LoaderInspectDecls(next, Tail(decls), pkgPath, filePath, rootDir)

\* findDefinitions(pkg, rootDir): the loop over pkg.Syntax
RECURSIVE LoaderFindDefinitions(_, _, _, _)
LoaderFindDefinitions(idx, pkgPath, files, rootDir) ==
    IF files = <<>> THEN idx
    ELSE LoaderFindDefinitions(
            LoaderInspectDecls(idx, Head(files).decls, pkgPath, Head(files).name, rootDir),
            pkgPath, Tail(files), rootDir)

\* findCallSites' loop over fileNode.Imports: every entry is registered,
\* under its name when it has one, else under the base of its path
RECURSIVE LoaderImportMap(_, _)
LoaderImportMap(importMap, imports) ==
    IF imports = <<>> THEN importMap
    ELSE LET impSpec == Head(imports)
             path == TrimQuotes(impSpec.path)
             next == IF impSpec.name # <<>>
                     THEN Put(importMap, impSpec.name[1], path)
                     ELSE Put(importMap, Base(path), path)
         IN  LoaderImportMap(next, Tail(imports))

\* ast.Inspect calls the callback with nil once the children of a node are
\* done; after records the kind of that node
NilNode(n) == [kind |-> "nil", after |-> n.kind]

NoInspection ==
    [active |-> FALSE, pkgPath |-> Empty, filePath |-> Empty, relativePath |-> Empty,
     fileIdx |-> 0, importMap |-> EmptyMap, currentCallerID |-> Empty, agenda |-> <<>>]

\* findCallSites at the start of ast.Inspect on file k of pkg
Inspection(pkg, k, rootDir) ==
    LET fileNode == pkg.syntax[k]
    IN  [active |-> TRUE, pkgPath |-> pkg.pkgPath, filePath |-> fileNode.name,
         relativePath |-> LoaderRel(rootDir, fileNode.name), fileIdx |-> k,
         importMap |-> LoaderImportMap(EmptyMap, fileNode.imports),
         currentCallerID |-> Empty,
         agenda |-> <<[kind |-> "File", decls |-> fileNode.decls]>>]

\* the callee ID the callback computes for a call, and whether it returns
\* before the lookup
LoaderCallee(iv, fun) ==
    CASE fun.kind = "SelectorExpr" ->
            IF fun.x.kind # "Ident" THEN [returns |-> TRUE, id |-> Empty]
            ELSE IF fun.x.name \in DOMAIN iv.importMap
            THEN [returns |-> FALSE, id |-> iv.importMap[fun.x.name] \o <<".">> \o fun.sel]
            ELSE [returns |-> FALSE, id |-> Empty]
      [] fun.kind = "Ident" ->
            [returns |-> FALSE, id |-> iv.pkgPath \o <<".">> \o fun.name]
      [] OTHER -> [returns |-> FALSE, id |-> Empty]

\* one call of findCallSites' callback on node n: the caller ID when it
\* returns, and the mappings. The deferred reset is registered only on the path
\* of a call expression, under a test for a function declaration.
InspectCallback(iv, maps, n) ==
    LET caller == IF n.kind = "FuncDecl" THEN LoaderID(iv.pkgPath, n, iv.filePath)
                  ELSE iv.currentCallerID
    IN  IF n.kind # "CallExpr"
        THEN [currentCallerID |-> caller, mappings |-> maps]
        ELSE LET c == LoaderCallee(iv, n.fun)
             IN  IF c.returns THEN [currentCallerID |-> caller, mappings |-> maps]
                 ELSE [currentCallerID |-> IF n.kind = "FuncDecl" THEN Empty ELSE caller,
                       mappings |->
                            IF c.id \in DOMAIN maps /\ caller # Empty
                            THEN [maps EXCEPT ![c.id].callSites =
                                    Append(@, CallSite(ToSlash(iv.relativePath), n.line, caller))]
                            ELSE maps]

\* the nodes ast.Inspect goes on with below n (the callback always returns
\* true), then the callback with nil
InspectBelow(n) ==
    IF n.kind = "nil" THEN <<>>
    ELSE (IF n.kind = "FuncDecl" THEN (IF n.hasBody THEN n.body ELSE <<>>)
          ELSE Children(n)) \o <<NilNode(n)>>

\* ---- the inputs of this revision ----
LoaderFile(imports, recv, shape, depth, k, varFirst) ==
    LET f == CallerFile(imports, recv, TRUE, shape, depth, k)
    IN  IF varFirst
        THEN LoadedFile([f EXCEPT !.decls = <<f.decls[3], f.decls[1], f.decls[2]>>])
        ELSE LoadedFile(f)

\* the main module m at r with packages m and m/x, module d in the cache, and
\* a package without module
LoadedPackages(file) ==
    << Package(Mod, Module(TRUE, Mod, Root), <<file>>),
       Package(PathX, Module(TRUE, Mod, Root), <<LoadedFile(CalleeFileX)>>),
       Package(D, Module(FALSE, D, DepRoot),
               <<LoadedFile([OneDeclFile(Empty, AGo, TRUE, <<>>, TRUE) EXCEPT !.root = DepRoot]),
                 LoadedFile([OneDeclFile(Empty, BGo, TRUE, <<>>, FALSE) EXCEPT !.root = DepRoot])>>),
       Package(<<"f">>, <<>>, <<>>) >>

LoaderWorld(internal, loadOk, printErrors, serve, pkgs) ==
    [rev |-> "loader", internalModules |-> internal, loadOk |-> loadOk,
     printErrors |-> printErrors, serveAddr |-> serve, pkgs |-> pkgs]

LoaderWorlds ==
    { LoaderWorld(internal, TRUE, FALSE, Empty,
                  LoadedPackages(LoaderFile(imports, recv, shape, depth, k, varFirst))) :
        internal \in {Empty, D, <<"x", ",">>},
        imports \in {<<>>, <<ImportSpec(<<>>, PathX)>>, <<ImportSpec(<<<<"_">>>>, PathX)>>},
        recv \in {<<>>, Recv(Ident(T), FALSE)},
        shape \in {Ident(F), SelectorExpr(Ident(X), F), SelectorExpr(ParenExpr(Ident(X)), F)},
        depth \in 0..MaxLitDepth, k \in 0..MaxCalls, varFirst \in BOOLEAN }
    \cup { LoaderWorld(Empty, loadOk, printErrors, serve, pkgs) :
            loadOk \in BOOLEAN, printErrors \in BOOLEAN, serve \in {Empty, <<":", "8">>},
            pkgs \in { LoadedPackages(LoaderFile(<<>>, <<>>, Ident(F), 0, 1, FALSE)),
                       <<Package(D, Module(FALSE, D, DepRoot), <<>>)>> } }

\* ---- the run of this revision ----
InitLoader ==
    /\ world \in LoaderWorlds
    /\ pc = "start"
    /\ skipPatterns = <<>>
    /\ goModCache = Empty
    /\ analysisTargets = <<>>
    /\ ti = 0
    /\ todo = {}
    /\ definitions = EmptyMap
    /\ mappings = EmptyMap
    /\ v = NoInspection
    /\ outFile = NoFile
    /\ handed = {}

rootDir == rootDirOf(world.pkgs)

\* main up to the first loop: packages.Load, packages.PrintErrors, rootDir
LoadPackages ==
    /\ pc = "start"
    /\ IF ~world.loadOk \/ world.printErrors \/ rootDir = Empty
       THEN Fatal
       ELSE /\ pc' = "pass1"
            /\ ti' = 1
            /\ UNCHANGED <<world, skipPatterns, goModCache, analysisTargets, todo,
                           definitions, mappings, v, outFile, handed>>

\* one round of main's first loop over pkgs
LoaderPass1 ==
    /\ pc = "pass1"
    /\ LET pkg == world.pkgs[ti]
           idx == [definitions |-> definitions, mappings |-> mappings]
           next == IF Analysed(pkg, internalPrefixes(world.internalModules))
                   THEN LoaderFindDefinitions(idx, pkg.pkgPath, pkg.syntax, rootDir)
                   ELSE idx
       IN  /\ definitions' = next.definitions
           /\ mappings' = next.mappings
           /\ IF ti < Len(world.pkgs)
              THEN pc' = pc /\ ti' = ti + 1
              ELSE pc' = "pass2" /\ ti' = 1
    /\ UNCHANGED <<world, skipPatterns, goModCache, analysisTargets, todo, v,
                   outFile, handed>>

\* where main's second loop goes after package ti
AfterPackage ==
    IF ti < Len(world.pkgs) THEN pc' = pc /\ ti' = ti + 1
    ELSE pc' = "serialize" /\ ti' = ti

\* one round of main's second loop over pkgs, up to ast.Inspect on the
\* package's first file
LoaderPass2Entry ==
    /\ pc = "pass2"
    /\ ~v.active
    /\ LET pkg == world.pkgs[ti]
       IN  IF Analysed(pkg, internalPrefixes(world.internalModules)) /\ pkg.syntax # <<>>
           THEN /\ v' = Inspection(pkg, 1, rootDir)
                /\ UNCHANGED <<pc, ti>>
           ELSE /\ v' = v
                /\ AfterPackage
    /\ UNCHANGED <<world, skipPatterns, goModCache, analysisTargets, todo,
                   definitions, mappings, outFile, handed>>

\* one call of the callback during ast.Inspect; after the last one the loop
\* over pkg.Syntax goes on with the next file, main's loop with the next package
InspectStep ==
    /\ pc = "pass2"
    /\ v.active
    /\ LET n == Head(v.agenda)
           r == IF n.kind = "nil"
                THEN [currentCallerID |-> v.currentCallerID, mappings |-> mappings]
                ELSE InspectCallback(v, mappings, n)
           agenda == InspectBelow(n) \o Tail(v.agenda)
           pkg == world.pkgs[ti]
       IN  /\ mappings' = r.mappings
           /\ IF agenda # <<>>
              THEN /\ v' = [v EXCEPT !.currentCallerID = r.currentCallerID,
                                     !.agenda = agenda]
                   /\ UNCHANGED <<pc, ti>>
              ELSE IF v.fileIdx < Len(pkg.syntax)
              THEN /\ v' = Inspection(pkg, v.fileIdx + 1, rootDir)
                   /\ UNCHANGED <<pc, ti>>
              ELSE /\ v' = NoInspection
                   /\ AfterPackage
    /\ UNCHANGED <<world, skipPatterns, goModCache, analysisTargets, todo,
                   definitions, outFile, handed>>

NextLoader ==
    \/ LoadPackages
    \/ LoaderPass1
    \/ LoaderPass2Entry
    \/ InspectStep
    \/ Serialize
    \/ Serve

SpecLoader == InitLoader /\ [][NextLoader]_vars

\* the files of the packages both loops analyse
AnalysedFiles ==
    UNION { {[pkg |-> world.pkgs[k], file |-> world.pkgs[k].syntax[j]] :
                j \in 1..Len(world.pkgs[k].syntax)} :
            k \in {x \in 1..Len(world.pkgs) :
                    Analysed(world.pkgs[x], internalPrefixes(world.internalModules))} }

\* the calls at file top level (initialisers of package-level variables) that
\* follow a function declaration of their file
CallsAfterDecl ==
    UNION { UNION { {[pkg |-> af.pkg, file |-> af.file, call |-> c.call,
                      prev |-> af.file.decls[j - 1]] :
                        c \in CallsIn(<<af.file.decls[j]>>, 0)} :
                    j \in {x \in 2..Len(af.file.decls) :
                            /\ af.file.decls[x].kind = "GenDecl"
                            /\ af.file.decls[x - 1].kind = "FuncDecl"} } :
            af \in AnalysedFiles }

\* the traversal is inside no function declaration
OutsideDecls ==
    \A i \in 1..Len(v.agenda) :
        ~(v.agenda[i].kind = "nil" /\ v.agenda[i].after = "FuncDecl")

\* C23: in the package-loader revision the current caller ID is empty again
\* once the traversal has left a function declaration, and a call at file top
\* level that follows a function declaration has no CallSite.
C23_CallerResetAfterDecl ==
    /\ v.active /\ OutsideDecls => v.currentCallerID = Empty
    /\ \A tc \in CallsAfterDecl :
        SitesAt(LoaderRel(rootDir, tc.file.name), tc.call.line) = {}

\* C23: Pass 2 is over; a call at file top level that follows the declaration
\* of G is recorded with G as its caller.
C23_TopLevelCallAttributedToPrevious ==
    /\ PassesDone
    /\ \E tc \in CallsAfterDecl :
        \E s \in SitesAt(LoaderRel(rootDir, tc.file.name), tc.call.line) :
            /\ s.site.callerId = LoaderID(tc.pkg.pkgPath, tc.prev, tc.file.name)
            /\ s.site.line = 5
            /\ tc.prev.name = G

====
